---- MODULE Spec2Model ----
(***************************************************************************)
(* Taidi tracker: the payout calculator (tracker.compute_payouts), the     *)
(* round ledger (tracker.CardGameTracker) and the snapshot persistence of  *)
(* models.py / database.py.                                                *)
(*                                                                         *)
(* Money is a Python float (IEEE-754 binary64).  The arithmetic below is   *)
(* that arithmetic, not arithmetic on reals: every +, - and * rounds its   *)
(* exact result to 53 significant bits, ties to even.                      *)
(***************************************************************************)
EXTENDS Integers, Sequences, FiniteSets, TLC

(***************************************************************************)
(* binary64 values.                                                        *)
(*                                                                         *)
(* A float is <<sg, a2, a1, a0>>: the number sg * N * 2^-60 with           *)
(* N = a2*2^48 + a1*2^24 + a0 and sg in {1, -1}; zero is <<1, 0, 0, 0>>    *)
(* (Python's == does not tell 0.0 from -0.0).  Every value the program     *)
(* computes from the card values below is a multiple of 2^-60 of magnitude *)
(* below 2^12, so N < 2^72 and neither overflow nor underflow occurs.  A   *)
(* float is representable when N has at most 53 significant bits.          *)
(***************************************************************************)
LimbBase == 2^24

FZero == <<1, 0, 0, 0>>

Mag(x) == <<x[2], x[3], x[4]>>

MagLess(m, n) ==
    \/ m[1] < n[1]
    \/ m[1] = n[1] /\ m[2] < n[2]
    \/ m[1] = n[1] /\ m[2] = n[2] /\ m[3] < n[3]

MagAdd(m, n) ==
    LET s0 == m[3] + n[3]
        s1 == m[2] + n[2] + (s0 \div LimbBase)
    IN  <<m[1] + n[1] + (s1 \div LimbBase), s1 % LimbBase, s0 % LimbBase>>

\* m - n for m >= n
MagSub(m, n) ==
    LET d0 == m[3] - n[3]
        b0 == IF d0 < 0 THEN 1 ELSE 0
        d1 == m[2] - n[2] - b0
        b1 == IF d1 < 0 THEN 1 ELSE 0
    IN  <<m[1] - n[1] - b1, d1 + b1 * LimbBase, d0 + b0 * LimbBase>>

\* m * k for a small natural k (k < 128)
MagMulSmall(m, k) ==
    LET p0 == m[3] * k
        p1 == m[2] * k + (p0 \div LimbBase)
    IN  <<m[1] * k + (p1 \div LimbBase), p1 % LimbBase, p0 % LimbBase>>

RECURSIVE BitLen(_)
BitLen(n) == IF n = 0 THEN 0 ELSE 1 + BitLen(n \div 2)

\* Round-to-nearest, ties-to-even, to 53 significant bits.  N < 2^53 iff
\* a2 < 2^5; otherwise the sh = BitLen(a2) - 5 low bits are rounded away
\* (sh < 24, so they all lie in the low limb).
RoundMag(m) ==
    IF m[1] < 32 THEN m
    ELSE LET sh == BitLen(m[1]) - 5
             g  == 2^sh
             q  == m[3] \div g
             r  == m[3] % g
             up == IF 2 * r > g \/ (2 * r = g /\ q % 2 = 1) THEN 1 ELSE 0
             n0 == (q + up) * g
             n1 == m[2] + (n0 \div LimbBase)
         IN  <<m[1] + (n1 \div LimbBase), n1 % LimbBase, n0 % LimbBase>>

MkFloat(sg, m) == IF m = <<0, 0, 0>> THEN FZero ELSE <<sg, m[1], m[2], m[3]>>

IsNaN(x) == x[1] = 0

FNeg(x) == IF IsNaN(x) THEN x ELSE MkFloat(-x[1], Mag(x))

\* x + y
FAdd(x, y) ==
    IF IsNaN(x) \/ IsNaN(y) THEN <<0, 0, 0, 0>>
    ELSE IF x[1] = y[1] THEN MkFloat(x[1], RoundMag(MagAdd(Mag(x), Mag(y))))
    ELSE IF MagLess(Mag(x), Mag(y))
         THEN MkFloat(y[1], RoundMag(MagSub(Mag(y), Mag(x))))
         ELSE MkFloat(x[1], RoundMag(MagSub(Mag(x), Mag(y))))

\* x - y
FSub(x, y) == FAdd(x, FNeg(y))

\* k * x for a natural k (an int operand converts to float exactly)
FMulInt(k, x) == MkFloat(x[1], RoundMag(MagMulSmall(Mag(x), k)))

\* x / k for an int k >= 1 (k < 128): the exact quotient <<q, rem / k>> by
\* long division, limb by limb, then rounded to 53 significant bits.  A
\* quotient below 2^-8 that is not a multiple of 2^-60 has no representation
\* here; the values the model divides never give one, and the evaluation
\* stops if one does.
MagDivSmall(m, k) ==
    LET t1 == m[1]
        t2 == (t1 % k) * LimbBase + m[2]
        t3 == (t2 % k) * LimbBase + m[3]
    IN  [q |-> <<t1 \div k, t2 \div k, t3 \div k>>, rem |-> t3 % k]

FDivInt(x, k) ==
    IF IsNaN(x) THEN x
    ELSE LET d == MagDivSmall(Mag(x), k)
         IN  IF d.q[1] < 16
             THEN IF d.rem = 0 THEN MkFloat(x[1], d.q)
                  ELSE CHOOSE unrepresentable \in {x} : unrepresentable # x
             ELSE LET sh == BitLen(d.q[1]) - 5
                      g  == 2^sh
                      q  == d.q[3] \div g
                      r  == d.q[3] % g
                      up == IF \/ 2 * (r * k + d.rem) > g * k
                               \/ (2 * (r * k + d.rem) = g * k /\ q % 2 = 1)
                            THEN 1 ELSE 0
                      n0 == (q + up) * g
                      n1 == d.q[2] + (n0 \div LimbBase)
                  IN  MkFloat(x[1], <<d.q[1] + (n1 \div LimbBase),
                                      n1 % LimbBase, n0 % LimbBase>>)

\* x > 0 and x < 0 (both false of NaN)
FPositive(x) == x[1] = 1 /\ Mag(x) # <<0, 0, 0>>

FNegative(x) == x[1] = -1

FLess(x, y) ==
    IF x[1] # y[1] THEN x[1] < y[1]
    ELSE IF x[1] = 1 THEN MagLess(Mag(x), Mag(y)) ELSE MagLess(Mag(y), Mag(x))

\* The exact (unrounded) sum of two values, for stating what a sum is over
\* the reals; not an operation of the program.
ExactAdd(x, y) ==
    IF x[1] = y[1] THEN MkFloat(x[1], MagAdd(Mag(x), Mag(y)))
    ELSE IF MagLess(Mag(x), Mag(y))
         THEN MkFloat(y[1], MagSub(Mag(y), Mag(x)))
         ELSE MkFloat(x[1], MagSub(Mag(x), Mag(y)))

\* Card values, as the nearest binary64:
\* 0.20 = 0x1999999999999A * 2^-55 (config.DEFAULT_CARD_VALUE)
\* 0.50 = 2^-1 (exact)
CardValue020 == <<1, 819, 3355443, 3355456>>
CardValue050 == <<1, 2048, 0, 0>>

\* float('nan'): a history cell of a player the round's payouts do not name
NaN == <<0, 0, 0, 0>>

(***************************************************************************)
(* tracker.compute_payouts.                                                *)
(*                                                                         *)
(* A dict is the sequence of its <<key, value>> items in insertion order   *)
(* (the order the loops below visit them in); its keys are distinct.       *)
(***************************************************************************)
Keys(d) == {d[k][1] : k \in 1..Len(d)}

HasKey(d, key) == \E k \in 1..Len(d) : d[k][1] = key

\* d[key], for a key of d
Get(d, key) == d[CHOOSE k \in 1..Len(d) : d[k][1] = key][2]

\* d.get(key, default)
GetOr(d, key, default) == IF HasKey(d, key) THEN Get(d, key) ELSE default

\* A slip in the thresholds: the 4-player pair for every number of players
thresholds_of_four(num_players) == [double |-> 10, triple |-> 13]

thresholds(num_players) ==
    IF num_players = 4 THEN [double |-> 10, triple |-> 13]
    ELSE IF num_players = 3 THEN [double |-> 12, triple |-> 15]
    ELSE [double |-> 10, triple |-> 13]

multiplier(payer_cards, num_players) ==
    IF payer_cards >= thresholds(num_players).triple THEN 3
    ELSE IF payer_cards >= thresholds(num_players).double THEN 2
    ELSE 1

\* A slip in the payment: its sign is turned
payment_negated(payer_cards, receiver_cards, card_value, num_players) ==
    FNeg(FMulInt(multiplier(payer_cards, num_players),
                 FMulInt(payer_cards - receiver_cards, card_value)))

\* payment = card_diff * card_value * multiplier, evaluated left to right
payment(payer_cards, receiver_cards, card_value, num_players) ==
    FMulInt(multiplier(payer_cards, num_players),
            FMulInt(payer_cards - receiver_cards, card_value))

\* Step 1: the nested loops over (payer i, receiver j), in row-major order
\* from pair number idx on.  po[k] is payouts[players[k]].
RECURSIVE pairwise_loop(_, _, _, _)
pairwise_loop(po, card_counts, card_value, idx) ==
    LET n == Len(card_counts)
        i == (idx \div n) + 1
        j == (idx % n) + 1
    IN  IF idx >= n * n THEN po
        ELSE IF i # j /\ card_counts[i][2] > card_counts[j][2]
        THEN LET pay == payment(card_counts[i][2], card_counts[j][2], card_value, n)
             IN  pairwise_loop([po EXCEPT ![i] = FSub(@, pay), ![j] = FAdd(@, pay)],
                               card_counts, card_value, idx + 1)
        ELSE pairwise_loop(po, card_counts, card_value, idx + 1)

\* Step 2: for winner w in winners, for every player k other than w.
RECURSIVE bonus_loop(_, _, _, _)
bonus_loop(po, card_counts, winner_bonus_per_payer, idx) ==
    LET n == Len(card_counts)
        w == (idx \div n) + 1
        k == (idx % n) + 1
    IN  IF idx >= n * n THEN po
        ELSE IF card_counts[w][2] = 0 /\ card_counts[k][1] # card_counts[w][1]
        THEN bonus_loop([po EXCEPT ![k] = FSub(@, winner_bonus_per_payer),
                                   ![w] = FAdd(@, winner_bonus_per_payer)],
                        card_counts, winner_bonus_per_payer, idx + 1)
        ELSE bonus_loop(po, card_counts, winner_bonus_per_payer, idx + 1)

compute_payouts(card_counts, card_value) ==
    LET n     == Len(card_counts)
        zero  == [k \in 1..n |-> FZero]
        step1 == pairwise_loop(zero, card_counts, card_value, 0)
        step2 == bonus_loop(step1, card_counts, FMulInt(2, card_value), 0)
    IN  [k \in 1..n |-> <<card_counts[k][1], step2[k]>>]

\* sum(d.values()): Python's sum, left to right from 0
RECURSIVE sum_values(_)
sum_values(d) ==
    IF Len(d) = 0 THEN FZero
    ELSE FAdd(sum_values(SubSeq(d, 1, Len(d) - 1)), d[Len(d)][2])

\* The same sum over the reals (no rounding)
RECURSIVE exact_sum_values(_)
exact_sum_values(d) ==
    IF Len(d) = 0 THEN FZero
    ELSE ExactAdd(exact_sum_values(SubSeq(d, 1, Len(d) - 1)), d[Len(d)][2])

\* Python return values: None, a bool, an int
PyNone == <<"None">>

PyBool(b) == <<"bool", b>>

PyInt(n) == <<"int", n>>

PyStr(s) == <<"str", s>>

\* A call that ends by raising the exception exc instead of returning
Raise(exc) == <<"raise", exc>>

\* A call that has not ended yet
Running == <<"running">>

(***************************************************************************)
(* tracker.CardGameTracker.                                                *)
(*                                                                         *)
(* A tracker is [players, balances, history, tx_log]:                      *)
(*   players  the list of names;                                           *)
(*   balances a dict name -> float, in the order of players;               *)
(*   history  the DataFrame, as the sequence of its columns from left to   *)
(*            right, each [label, vals] with vals[p] the cell of row p     *)
(*            (the row index is players);                                  *)
(*   tx_log   the list of transaction dicts.                               *)
(***************************************************************************)
Range(seq) == {seq[k] : k \in 1..Len(seq)}

\* f"R{round_num}"
col_name(round_num) == <<"R", round_num>>

Labels(history) == [c \in 1..Len(history) |-> history[c].label]

\* history[label].to_dict(): the column carrying that label
column_to_dict(history, index, label) ==
    LET c == CHOOSE c \in 1..Len(history) : history[c].label = label
    IN  [k \in 1..Len(index) |-> <<index[k], history[c].vals[index[k]]>>]

\* pd.Series(payouts), aligned on the frame's index when it is assigned as a
\* column: a row the Series does not name gets NaN, a name that is not a row
\* is dropped.
series_on_index(payouts, index) ==
    [p \in Range(index) |-> GetOr(payouts, p, NaN)]

\* {key: value for key in keys}: one item per distinct key, at the place of
\* the key's first occurrence
RECURSIVE dict_comprehension(_, _)
dict_comprehension(keys, value) ==
    IF Len(keys) = 0 THEN <<>>
    ELSE LET d   == dict_comprehension(SubSeq(keys, 1, Len(keys) - 1), value)
             key == keys[Len(keys)]
         IN  IF HasKey(d, key) THEN d ELSE Append(d, <<key, value>>)

CardGameTracker(players) ==
    [players  |-> players,
     balances |-> dict_comprehension(players, FZero),
     history  |-> <<>>,
     tx_log   |-> <<>>]

\* for player in players: balances[player] += d.get(player, 0.0)   (sign = 1)
\* for player in players: balances[player] -= d.get(player, 0.0)   (sign = -1)
\* one pass per entry of the players list, in the list's order
RECURSIVE apply_to_balances(_, _, _, _)
apply_to_balances(players, balances, d, sign) ==
    IF Len(players) = 0 THEN balances
    ELSE LET b      == apply_to_balances(SubSeq(players, 1, Len(players) - 1),
                                         balances, d, sign)
             player == players[Len(players)]
         IN  [k \in 1..Len(b) |->
                IF b[k][1] # player THEN b[k]
                ELSE <<player,
                       IF sign = 1 THEN FAdd(b[k][2], GetOr(d, player, FZero))
                       ELSE FSub(b[k][2], GetOr(d, player, FZero))>>]

\* A slip in add_round: the new column put in front of the others
set_column_front(history, label, vals) ==
    <<[label |-> label, vals |-> vals]>> \o history

\* self.history[col_name] = series: a new rightmost column, or the values of
\* the column that already carries the label
set_column(history, label, vals) ==
    IF \E c \in 1..Len(history) : history[c].label = label
    THEN [c \in 1..Len(history) |->
            IF history[c].label = label THEN [label |-> label, vals |-> vals]
            ELSE history[c]]
    ELSE Append(history, [label |-> label, vals |-> vals])

add_round(t, card_counts, card_value, now) ==
    LET payouts   == compute_payouts(card_counts, card_value)
        round_num == Len(t.history) + 1
        tx        == [round       |-> round_num,
                      timestamp   |-> now,
                      card_counts |-> card_counts,
                      card_value  |-> card_value,
                      payouts     |-> payouts]
    IN  [tracker |-> [players  |-> t.players,
                      balances |-> apply_to_balances(t.players, t.balances, payouts, 1),
                      history  |-> set_column(t.history, col_name(round_num),
                                              series_on_index(payouts, t.players)),
                      tx_log   |-> Append(t.tx_log, tx)],
         ret |-> PyNone]

\* add_round statement by statement: the balances loop (lines 105-106), the
\* new history column (108-110) and the tx_log record (112-119)
add_round_balances(t, payouts) ==
    [t EXCEPT !.balances = apply_to_balances(t.players, @, payouts, 1)]

add_round_history(t, round_num, payouts) ==
    [t EXCEPT !.history = set_column(@, col_name(round_num),
                                     series_on_index(payouts, t.players))]

\* A slip in add_round: the record is never appended
tx_log_not_appended(t, round_num, now, card_counts, card_value, payouts) == t

add_round_tx_log(t, round_num, now, card_counts, card_value, payouts) ==
    [t EXCEPT !.tx_log = Append(@, [round       |-> round_num,
                                    timestamp   |-> now,
                                    card_counts |-> card_counts,
                                    card_value  |-> card_value,
                                    payouts     |-> payouts])]

\* Binding the positional arguments of a call of add_round(self, card_counts,
\* card_value): any other number of arguments raises TypeError before the
\* body runs
bind_add_round(args) ==
    IF Len(args) = 2 THEN PyNone ELSE Raise("TypeError")

\* A slip in undo_last_round: the empty ledger is not refused
undo_without_guard(t) ==
    [tracker |-> [players  |-> t.players,
                  balances |-> IF Len(t.history) = 0 THEN t.balances
                               ELSE apply_to_balances(t.players, t.balances,
                                        column_to_dict(t.history, t.players,
                                                       t.history[Len(t.history)].label), -1),
                  history  |-> SubSeq(t.history, 1, Len(t.history) - 1),
                  tx_log   |-> SubSeq(t.tx_log, 1, Len(t.tx_log) - 1)],
     ret |-> PyBool(TRUE)]

undo_last_round(t) ==
    IF Len(t.history) = 0 THEN [tracker |-> t, ret |-> PyBool(FALSE)]
    ELSE LET last_col     == t.history[Len(t.history)].label
             last_payouts == column_to_dict(t.history, t.players, last_col)
         IN  [tracker |-> [players  |-> t.players,
                           balances |-> apply_to_balances(t.players, t.balances, last_payouts, -1),
                           history  |-> SubSeq(t.history, 1, Len(t.history) - 1),
                           tx_log   |-> IF Len(t.tx_log) > 0
                                        THEN SubSeq(t.tx_log, 1, Len(t.tx_log) - 1)
                                        ELSE t.tx_log],
              ret |-> PyBool(TRUE)]

\* Slips in the removal from tx_log: no pop at all, pop(0), and pop() of the
\* last record whatever the round number
pop_nothing(seq, i) == seq

pop_first(seq, i) == SubSeq(seq, 2, Len(seq))

pop_last(seq, i) == SubSeq(seq, 1, Len(seq) - 1)

\* seq.pop(i) for a 1-based position i
pop_at(seq, i) == [k \in 1..(Len(seq) - 1) |-> IF k < i THEN seq[k] ELSE seq[k + 1]]

\* history.drop(columns=[label])
drop_column(history, label) ==
    SelectSeq(history, LAMBDA col : col.label # label)

\* A slip in remove_round: the remaining columns keep their labels
rename_skipped(history) == history

\* the rename of the remaining columns to R1, R2, ... by position
rename_sequential(history) ==
    [c \in 1..Len(history) |-> [label |-> col_name(c), vals |-> history[c].vals]]

\* for i in range(round_number - 1, len(tx_log)): tx_log[i]["round"] = i + 1
renumber_from(tx_log, round_number) ==
    [k \in 1..Len(tx_log) |->
        IF k >= round_number THEN [tx_log[k] EXCEPT !.round = k] ELSE tx_log[k]]

\* A slip in remove_round: the round number is ignored and the last round
\* is removed
remove_round_ignoring_number(t, round_number) == undo_last_round(t)

remove_round(t, round_number) ==
    IF round_number < 1 \/ round_number > Len(t.history)
    THEN [tracker |-> t, ret |-> PyBool(FALSE)]
    ELSE IF \A c \in 1..Len(t.history) : t.history[c].label # col_name(round_number)
    THEN [tracker |-> t, ret |-> PyBool(FALSE)]
    ELSE LET round_payouts == column_to_dict(t.history, t.players, col_name(round_number))
         IN  [tracker |-> [players  |-> t.players,
                           balances |-> apply_to_balances(t.players, t.balances, round_payouts, -1),
                           history  |-> rename_sequential(
                                            drop_column(t.history, col_name(round_number))),
                           tx_log   |-> IF Len(t.tx_log) > 0 /\ round_number <= Len(t.tx_log)
                                        THEN renumber_from(pop_at(t.tx_log, round_number),
                                                           round_number)
                                        ELSE t.tx_log],
              ret |-> PyBool(TRUE)]

\* summary.sum(axis=1) for row p: the row's cells added from left to right,
\* NaN cells skipped (counted as 0)
RECURSIVE row_sum(_, _)
row_sum(history, p) ==
    IF Len(history) = 0 THEN FZero
    ELSE LET cell == history[Len(history)].vals[p]
         IN  FAdd(row_sum(SubSeq(history, 1, Len(history) - 1), p),
                  IF IsNaN(cell) THEN FZero ELSE cell)

\* get_summary(): the history columns plus the Total column
get_summary(t) ==
    [columns |-> t.history,
     Total   |-> [p \in Range(t.players) |-> row_sum(t.history, p)]]

\* Objects a caller holds: ref tells which object it is, the tracker's own
\* ("self.balances", "self.history") or one made for the caller.
NoObject == [ref |-> "none", items |-> <<>>]

\* A slip in get_balances: the dict itself is returned
get_balances_alias(t) == [ref |-> "self.balances", items |-> t.balances]

\* self.balances.copy(): a new dict with the same items
get_balances(t) == [ref |-> "new dict", items |-> t.balances]

\* self.history.copy(): a new frame with the same columns
history_copy(t) == [ref |-> "new frame", items |-> t.history]

\* d[key] = value
dict_set(d, key, value) ==
    IF HasKey(d, key)
    THEN [k \in 1..Len(d) |-> IF d[k][1] = key THEN <<key, value>> ELSE d[k]]
    ELSE Append(d, <<key, value>>)

(***************************************************************************)
(* models.save_game_snapshot / restore_tracker_from_snapshot and the       *)
(* active_games row of database.save_active_game / load_active_game.       *)
(***************************************************************************)
\* history.to_dict(orient="split"): the row labels, the column labels and
\* the cells row by row
to_dict_split(history, index) ==
    [index   |-> index,
     columns |-> Labels(history),
     data    |-> [r \in 1..Len(index) |->
                    [c \in 1..Len(history) |-> history[c].vals[index[r]]]]]

\* pd.DataFrame(data=data, index=index, columns=columns) for row-wise data
DataFrame(data, index, columns) ==
    [c \in 1..Len(columns) |->
        [label |-> columns[c],
         vals  |-> [p \in Range(index) |->
                      data[CHOOSE r \in 1..Len(index) : index[r] = p][c]]]]

save_game_snapshot(t, round_num, card_value) ==
    [players    |-> t.players,
     balances   |-> t.balances,
     history    |-> to_dict_split(t.history, t.players),
     round_num  |-> round_num,
     card_value |-> card_value,
     tx_log     |-> t.tx_log]

\* json.dumps / json.loads on a snapshot: the text and its parse.  The
\* snapshot holds only str, int, float, list and dict-with-str-keys values;
\* json writes a float as its repr, which parses back to the same binary64
\* (NaN as the token NaN), and keeps the order of lists and of dict items.
json_dumps(value) == <<"json", value>>

json_loads(text) == text[2]

\* INSERT OR REPLACE INTO active_games ... json.dumps(snapshot)
save_active_game(snapshot) == [snapshot |-> json_dumps(snapshot)]

\* SELECT snapshot FROM active_games ... json.loads(row["snapshot"])
load_active_game(row) == json_loads(row.snapshot)

\* A slip in the restore: the balances of the fresh tracker are kept
restore_without_balances(snapshot) ==
    LET fresh == CardGameTracker(snapshot.players)
        hist  == snapshot.history
    IN  [tracker    |-> [players  |-> fresh.players,
                         balances |-> fresh.balances,
                         history  |-> DataFrame(hist.data, hist.index, hist.columns),
                         tx_log   |-> snapshot.tx_log],
         round_num  |-> snapshot.round_num,
         card_value |-> snapshot.card_value]

restore_tracker_from_snapshot(snapshot) ==
    LET fresh == CardGameTracker(snapshot.players)
        hist  == snapshot.history
    IN  [tracker    |-> [players  |-> fresh.players,
                         balances |-> snapshot.balances,
                         history  |-> DataFrame(hist.data, hist.index, hist.columns),
                         tx_log   |-> snapshot.tx_log],
         round_num  |-> snapshot.round_num,
         card_value |-> snapshot.card_value]

(***************************************************************************)
(* The players and archived_games tables of database.py and the lifetime   *)
(* statistics of models.py.                                                *)
(*                                                                         *)
(* A database is [players, archived_games, issued]: the rows of the two    *)
(* tables in the order they were inserted, and the number of ids uuid4 has *)
(* issued (the k-th id is k).  A created_at string "%Y-%m-%d %H:%M:%S" is  *)
(* the number of its second: the strings compare as these numbers do.      *)
(***************************************************************************)
\* name.strip() and SQL LOWER(name), on the names of the model
str_strip(name) ==
    CASE name = " A" -> "A"
      [] name = " "  -> ""
      [] OTHER       -> name

\* (SQLite's LOWER folds the letters A-Z only: LOWER('É') is 'É')
str_lower(name) ==
    CASE name = "A" -> "a"
      [] name = "B" -> "b"
      [] name = "C" -> "c"
      [] OTHER      -> name

\* SELECT * FROM players WHERE LOWER(name) = LOWER(?), fetchone: the position
\* of the first such row, 0 for None
get_player_by_name(d, name) ==
    IF \E k \in 1..Len(d.players) : str_lower(d.players[k].name) = str_lower(name)
    THEN CHOOSE k \in 1..Len(d.players) :
            /\ str_lower(d.players[k].name) = str_lower(name)
            /\ \A j \in 1..(k - 1) : str_lower(d.players[j].name) # str_lower(name)
    ELSE 0

\* database.add_player: the INSERT, refused (the exception is swallowed) when
\* the id or the name is already in the table
db_add_player(d, player_id, name, created_at) ==
    IF \E k \in 1..Len(d.players) :
          d.players[k].player_id = player_id \/ d.players[k].name = name
    THEN d
    ELSE [d EXCEPT !.players = Append(@, [player_id    |-> player_id,
                                          name         |-> name,
                                          created_at   |-> created_at,
                                          games_played |-> 0,
                                          total_net    |-> FZero,
                                          avg_per_game |-> FZero,
                                          wins         |-> 0,
                                          losses       |-> 0,
                                          ties         |-> 0,
                                          last_played  |-> PyNone])]

\* models.add_player: [db, ret] with ret the player's id ("" for a blank name)
add_player(d, name, now) ==
    LET name_clean == str_strip(name)
        existing   == get_player_by_name(d, name_clean)
    IN  IF name_clean = "" THEN [db |-> d, ret |-> PyStr("")]
        ELSE IF existing # 0
        THEN [db |-> d, ret |-> PyInt(d.players[existing].player_id)]
        ELSE [db  |-> db_add_player([d EXCEPT !.issued = @ + 1],
                                     d.issued + 1, name_clean, now),
              ret |-> PyInt(d.issued + 1)]

\* database.delete_player: DELETE FROM players WHERE player_id = ?; [db, ret]
\* with ret whether a row went
db_delete_player(d, player_id) ==
    [db  |-> [d EXCEPT !.players =
                 SelectSeq(@, LAMBDA row : row.player_id # player_id)],
     ret |-> PyBool(\E k \in 1..Len(d.players) : d.players[k].player_id = player_id)]

\* models.delete_player_by_name(name, active_players), active_players a set
\* of names (empty for None or set())
delete_player_by_name(d, name, active_players) ==
    LET player == get_player_by_name(d, name)
    IN  IF player = 0 THEN [db |-> d, ret |-> PyBool(FALSE)]
        ELSE IF active_players # {} /\ name \in active_players
        THEN [db |-> d, ret |-> PyBool(FALSE)]
        ELSE db_delete_player(d, d.players[player].player_id)

\* database.update_player_stats: UPDATE players SET ... WHERE player_id = ?
update_player_stats(d, player_id, stats) ==
    [d EXCEPT !.players =
        [k \in 1..Len(d.players) |->
            IF PyInt(d.players[k].player_id) # player_id THEN d.players[k]
            ELSE [d.players[k] EXCEPT !.games_played = stats.games_played,
                                      !.total_net    = stats.total_net,
                                      !.avg_per_game = stats.avg_per_game,
                                      !.wins         = stats.wins,
                                      !.losses       = stats.losses,
                                      !.ties         = stats.ties,
                                      !.last_played  = stats.last_played]]]

\* The number of round results of a list counted as wins ("round_result > 0")
count_wins(player_rounds) ==
    Cardinality({k \in 1..Len(player_rounds) : FPositive(player_rounds[k])})

\* The number of round results of a list counted as losses ("round_result < 0")
count_losses(player_rounds) ==
    Cardinality({k \in 1..Len(player_rounds) : FNegative(player_rounds[k])})

\* One pass of the loop "for name, net in totals.items()" (models.py:131-174)
stats_for_player(d, entry, name, net, now) ==
    LET added  == add_player(d, name, now)
        d1     == added.db
        found  == get_player_by_name(d1, name)
        player == d1.players[found]
        has_rounds   == Len(entry.round_history) > 0 /\ HasKey(entry.round_history, name)
        rounds       == IF has_rounds THEN Get(entry.round_history, name) ELSE <<>>
        round_wins   == count_wins(rounds)
        round_losses == count_losses(rounds)
        round_ties   == Len(rounds) - round_wins - round_losses
        games_played == player.games_played + 1
        total_net    == FAdd(player.total_net, net)
        stats  == [games_played |-> games_played,
                   total_net    |-> total_net,
                   avg_per_game |-> IF games_played > 0
                                    THEN FDivInt(total_net, games_played) ELSE FZero,
                   wins         |-> player.wins + round_wins,
                   losses       |-> player.losses + round_losses,
                   ties         |-> player.ties + round_ties,
                   last_played  |-> PyInt(entry.created_at)]
    IN  IF found = 0 THEN d1
        ELSE update_player_stats(d1, added.ret, stats)

\* The loop over totals.items(), from item idx on
RECURSIVE stats_for_entry(_, _, _, _)
stats_for_entry(d, entry, now, idx) ==
    IF idx > Len(entry.final_totals) THEN d
    ELSE stats_for_entry(stats_for_player(d, entry, entry.final_totals[idx][1],
                                          entry.final_totals[idx][2], now),
                         entry, now, idx + 1)

\* models.update_player_stats_from_archive (the same loop, models.py:62-101)
update_player_stats_from_archive(d, entry, now) == stats_for_entry(d, entry, now, 1)

\* A slip in the recalculation: the entries are taken as the query returns them
not_sorted(games) == games

\* sorted(archived_games, key=created_at): ascending and stable
RECURSIVE sorted_by_created_at(_)
sorted_by_created_at(games) ==
    IF Len(games) = 0 THEN <<>>
    ELSE LET front == sorted_by_created_at(SubSeq(games, 1, Len(games) - 1))
             entry == games[Len(games)]
             pos   == Cardinality({k \in 1..Len(front) :
                                      front[k].created_at <= entry.created_at})
         IN  SubSeq(front, 1, pos) \o <<entry>> \o SubSeq(front, pos + 1, Len(front))

\* The orders of a list
Orders(seq) ==
    {[k \in 1..Len(seq) |-> seq[f[k]]] : f \in Permutations(1..Len(seq))}

\* database.get_all_archived_games: SELECT ... ORDER BY created_at DESC; rows
\* of the same second come in any order
get_all_archived_games(d) ==
    {games \in Orders(d.archived_games) :
        \A i, j \in 1..Len(games) : i < j => games[i].created_at >= games[j].created_at}

\* A slip in the recalculation: the stats are not reset first
reset_skipped(d) == d

\* The reset loop over get_all_players() (models.py:107-119)
reset_all_player_stats(d) ==
    [d EXCEPT !.players =
        [k \in 1..Len(d.players) |->
            [d.players[k] EXCEPT !.games_played = 0,
                                 !.total_net    = FZero,
                                 !.avg_per_game = FZero,
                                 !.wins         = 0,
                                 !.losses       = 0,
                                 !.ties         = 0,
                                 !.last_played  = PyNone]]]

\* The loop over the sorted entries
RECURSIVE recalculate_loop(_, _, _)
recalculate_loop(d, entries, now) ==
    IF Len(entries) = 0 THEN d
    ELSE recalculate_loop(stats_for_entry(d, entries[1], now, 1),
                          SubSeq(entries, 2, Len(entries)), now)

\* models.recalculate_all_player_stats, with archived_games the list
\* db.get_all_archived_games() returned to it
recalculate_all_player_stats(d, archived_games, now) ==
    recalculate_loop(reset_all_player_stats(d), sorted_by_created_at(archived_games), now)

\* database.add_archived_game: the INSERT
db_add_archived_game(d, entry) ==
    [d EXCEPT !.archived_games = Append(@, entry)]

\* models.add_archived_game, for an entry that carries its archive_id
add_archived_game(d, entry, now) ==
    update_player_stats_from_archive(db_add_archived_game(d, entry), entry, now)

\* database.clear_all_archived_games: DELETE FROM archived_games
db_clear_all_archived_games(d) == [d EXCEPT !.archived_games = <<>>]

\* database.delete_archived_game: [db, ret] with ret whether a row went
db_delete_archived_game(d, archive_id) ==
    [db  |-> [d EXCEPT !.archived_games =
                 SelectSeq(@, LAMBDA row : row.archive_id # archive_id)],
     ret |-> PyBool(\E k \in 1..Len(d.archived_games) :
                      d.archived_games[k].archive_id = archive_id)]

(***************************************************************************)
(* The state machine: one tracker driven through its public operations.    *)
(***************************************************************************)
VARIABLES
    tracker,      \* the CardGameTracker object
    card_value,   \* the game's value per card, passed to every add_round
    clock,        \* datetime.now(), in ticks
    last,         \* the last call: [op, arg, ret]
    calc,         \* compute_payouts called on its own: [stage, card_counts, card_value, payouts]
    frame,        \* the activation of add_round in progress: [pc, ...]
    returned,     \* the object the caller got from get_balances
    db,           \* the database: [players, archived_games, issued]
    session,      \* st.session_state: [tracker, round_num, game_id, archived_this_game]
    active_games, \* the active_games table: rows [game_id, snapshot]
    peer,         \* a second browser session: [session, tracker, card_value]
    auth          \* st.session_state of the login: [authenticated, initialized]

vars == <<tracker, card_value, clock, last, calc, frame, returned, db,
          session, active_games, peer, auth>>

\* No call in progress
Idle == [pc |-> "idle"]

\* The database with no player and no archived game
EmptyDb == [players |-> <<>>, archived_games |-> <<>>, issued |-> 0]

\* The session state init_session_state leaves when it finds no game: no
\* tracker, no game_id, round 1 (main.py:63-67)
NoSession == [tracker |-> "None", round_num |-> 1, game_id |-> PyNone,
              archived_this_game |-> FALSE]

\* config.DEFAULT_CARD_VALUE
DEFAULT_CARD_VALUE == CardValue020

\* A second browser session that holds no game
NoPeer == [session |-> NoSession, tracker |-> CardGameTracker(<<>>),
           card_value |-> DEFAULT_CARD_VALUE]

\* A session_state without the keys "authenticated" and "initialized"
NoLogin == [authenticated |-> FALSE, initialized |-> FALSE]

\* The session_state of a session that logged in and ran init_session_state
LoggedIn == [authenticated |-> TRUE, initialized |-> TRUE]

\* Bounds of the model
MaxRounds == 3
MaxClock == 3
CalcMaxCard == 2

LedgerPlayers == <<"A", "B", "C">>

\* The card counts a player may report for a round of the ledger
LedgerCards == {0, 1}

CardValues == {CardValue020, CardValue050}

\* The card_counts dicts over a player list, keyed in the list's order
CardCountsOver(players, cards) ==
    {[k \in 1..Len(players) |-> <<players[k], f[k]>>] : f \in [1..Len(players) -> cards]}

Init ==
    /\ tracker = CardGameTracker(LedgerPlayers)
    /\ card_value \in CardValues
    /\ clock = 0
    /\ last = [op |-> "new", arg |-> LedgerPlayers, ret |-> PyNone]
    /\ calc = [stage |-> "idle"]
    /\ frame = Idle
    /\ returned = NoObject
    /\ db = EmptyDb
    /\ session = NoSession
    /\ active_games = <<>>
    /\ peer = NoPeer
    /\ auth = NoLogin

AddRound ==
    \E card_counts \in CardCountsOver(tracker.players, LedgerCards) :
        /\ Len(tracker.history) < MaxRounds
        /\ clock < MaxClock
        /\ LET r == add_round(tracker, card_counts, card_value, clock)
           IN  /\ tracker' = r.tracker
               /\ last' = [op |-> "add_round", arg |-> card_counts, ret |-> r.ret]
        /\ clock' = clock + 1
        /\ UNCHANGED <<card_value, calc, frame, returned, db, session, active_games, peer, auth>>

UndoLastRound ==
    /\ LET r == undo_last_round(tracker)
       IN  /\ tracker' = r.tracker
           /\ last' = [op |-> "undo_last_round", arg |-> PyNone, ret |-> r.ret]
    /\ UNCHANGED <<card_value, clock, calc, frame, returned, db, session, active_games, peer, auth>>

RemoveRound ==
    \E round_number \in 0..(Len(tracker.history) + 1) :
        /\ LET r == remove_round(tracker, round_number)
           IN  /\ tracker' = r.tracker
               /\ last' = [op |-> "remove_round", arg |-> round_number, ret |-> r.ret]
        /\ UNCHANGED <<card_value, clock, calc, frame, returned, db, session, active_games,
                       peer, auth>>

\* save_game_snapshot followed by load_game_snapshot and
\* restore_tracker_from_snapshot, as a session that opens the game does
SaveAndRestore ==
    \E round_num \in {1, Len(tracker.history) + 1} :
        /\ LET row == save_active_game(save_game_snapshot(tracker, round_num, card_value))
               r   == restore_tracker_from_snapshot(load_active_game(row))
           IN  last' = [op |-> "restore", arg |-> round_num, ret |-> r]
        /\ UNCHANGED <<tracker, card_value, clock, calc, frame, returned, db, session,
                       active_games, peer, auth>>

Next == AddRound \/ UndoLastRound \/ RemoveRound \/ SaveAndRestore

Spec == Init /\ [][Next]_vars

(***************************************************************************)
(* compute_payouts on its own, over card counts around the multiplier      *)
(* thresholds and 2 to 4 players.                                          *)
(***************************************************************************)
CalcPlayers == {<<"A", "B">>, <<"A", "B", "C">>, <<"A", "B", "C", "D">>}

CalcCards == (0..CalcMaxCard) \cup {5, 8} \cup {10, 12, 13, 15}

CalcInit ==
    /\ tracker = CardGameTracker(LedgerPlayers)
    /\ card_value = CardValue020
    /\ clock = 0
    /\ last = [op |-> "new", arg |-> LedgerPlayers, ret |-> PyNone]
    /\ frame = Idle
    /\ returned = NoObject
    /\ db = EmptyDb
    /\ session = NoSession
    /\ active_games = <<>>
    /\ peer = NoPeer
    /\ auth = NoLogin
    /\ \E players \in CalcPlayers, cv \in CardValues :
         \E card_counts \in CardCountsOver(players, CalcCards) :
            calc = [stage |-> "input", card_counts |-> card_counts,
                    card_value |-> cv, payouts |-> <<>>]

CalcCompute ==
    /\ calc.stage = "input"
    /\ calc' = [calc EXCEPT !.stage = "done",
                            !.payouts = compute_payouts(calc.card_counts, calc.card_value)]
    /\ UNCHANGED <<tracker, card_value, clock, last, frame, returned, db, session,
                   active_games, peer, auth>>

CalcNext == CalcCompute

SpecCalc == CalcInit /\ [][CalcNext]_vars

(***************************************************************************)
(* The tracker's interface call by call: the constructor, add_round run    *)
(* statement by statement (with the arguments the callers pass, those of   *)
(* main.py's Add Round button included), get_balances with what the caller *)
(* does to the returned dict, and get_summary.  Calls do not overlap: a    *)
(* session's script runs them one after the other.                         *)
(***************************************************************************)
ApiMaxRounds == 2

\* Player lists handed to the constructor
ApiPlayerLists == {<<>>, <<"A", "A">>, <<"A", "B">>}

\* Card counts handed to add_round
ApiCards == {-1, 0, 1}

\* The keys of a dict, in order
KeyList(d) == [k \in 1..Len(d) |-> d[k][1]]

\* special_hands and bao_player as main.py builds them for players
SpecialHandsOver(players) ==
    {<<>>} \cup (IF Len(players) = 0 THEN {}
                 ELSE {<<<<players[1], units>>>> : units \in {1, 2}})

BaoPlayersOver(players) ==
    {PyNone} \cup (IF Len(players) = 0 THEN {}
                   ELSE {PyStr(players[Len(players)])})

\* The positional arguments of a call: (card_counts, card_value) or
\* (card_counts, card_value, special_hands, bao_player)
AddRoundArgs(players, cv) ==
    {<<card_counts, cv>> : card_counts \in CardCountsOver(players, ApiCards)}
    \cup {<<card_counts, cv, special_hands, bao_player>> :
              card_counts \in CardCountsOver(players, ApiCards),
              special_hands \in SpecialHandsOver(players),
              bao_player \in BaoPlayersOver(players)}

ApiInit ==
    /\ tracker = CardGameTracker(<<"A", "B">>)
    /\ card_value \in CardValues
    /\ clock = 0
    /\ last = [op |-> "new", arg |-> <<"A", "B">>, ret |-> PyNone]
    /\ calc = [stage |-> "idle"]
    /\ frame = Idle
    /\ returned = NoObject
    /\ db = EmptyDb
    /\ session = NoSession
    /\ active_games = <<>>
    /\ peer = NoPeer
    /\ auth = NoLogin

\* CardGameTracker(players): the session's tracker is replaced
New ==
    \E players \in ApiPlayerLists :
        /\ frame.pc = "idle"
        /\ tracker' = CardGameTracker(players)
        /\ last' = [op |-> "new", arg |-> players, ret |-> PyNone]
        /\ frame' = Idle
        /\ returned' = NoObject
        /\ UNCHANGED <<card_value, clock, calc, db, session, active_games, peer, auth>>

\* tracker.add_round(*args): the arguments are bound; the body starts at
\* line 103 or the call raises
AddRoundCall ==
    \E args \in AddRoundArgs(KeyList(tracker.balances), card_value) :
        /\ frame.pc = "idle"
        /\ Len(tracker.history) < ApiMaxRounds
        /\ clock < MaxClock
        /\ IF bind_add_round(args) = PyNone
           THEN /\ frame' = [pc |-> "compute_payouts", pre |-> tracker, args |-> args,
                             card_counts |-> args[1], card_value |-> args[2],
                             payouts |-> <<>>, round_num |-> 0, now |-> 0]
                /\ last' = [op |-> "add_round", arg |-> args, ret |-> Running]
           ELSE /\ frame' = [pc |-> "idle", pre |-> tracker, args |-> args,
                             card_counts |-> args[1], card_value |-> args[2],
                             payouts |-> <<>>, round_num |-> 0, now |-> 0]
                /\ last' = [op |-> "add_round", arg |-> args, ret |-> bind_add_round(args)]
        /\ returned' = NoObject
        /\ UNCHANGED <<tracker, card_value, clock, calc, db, session, active_games, peer, auth>>

\* line 103
AddRoundComputePayouts ==
    /\ frame.pc = "compute_payouts"
    /\ frame' = [frame EXCEPT !.pc = "balances",
                              !.payouts = compute_payouts(frame.card_counts, frame.card_value)]
    /\ UNCHANGED <<tracker, card_value, clock, last, calc, returned, db, session, active_games,
                   peer, auth>>

\* lines 105-106
AddRoundBalances ==
    /\ frame.pc = "balances"
    /\ tracker' = add_round_balances(tracker, frame.payouts)
    /\ frame' = [frame EXCEPT !.pc = "history"]
    /\ UNCHANGED <<card_value, clock, last, calc, returned, db, session, active_games, peer, auth>>

\* lines 108-110
AddRoundHistory ==
    /\ frame.pc = "history"
    /\ tracker' = add_round_history(tracker, Len(tracker.history) + 1, frame.payouts)
    /\ frame' = [frame EXCEPT !.pc = "tx_log", !.round_num = Len(tracker.history) + 1]
    /\ UNCHANGED <<card_value, clock, last, calc, returned, db, session, active_games, peer, auth>>

\* lines 112-119, and the return
AddRoundTxLog ==
    /\ frame.pc = "tx_log"
    /\ tracker' = add_round_tx_log(tracker, frame.round_num, clock, frame.card_counts,
                                   frame.card_value, frame.payouts)
    /\ frame' = [frame EXCEPT !.pc = "idle", !.now = clock]
    /\ last' = [last EXCEPT !.ret = PyNone]
    /\ clock' = clock + 1
    /\ UNCHANGED <<card_value, calc, returned, db, session, active_games, peer, auth>>

\* balances = tracker.get_balances()
GetBalances ==
    /\ frame.pc = "idle"
    /\ returned' = get_balances(tracker)
    /\ last' = [op |-> "get_balances", arg |-> PyNone, ret |-> get_balances(tracker).items]
    /\ frame' = Idle
    /\ UNCHANGED <<tracker, card_value, clock, calc, db, session, active_games, peer, auth>>

\* balances["A"] = 0.5 by the caller, on the dict get_balances returned
MutateReturned ==
    /\ frame.pc = "idle"
    /\ last.op = "get_balances"
    /\ returned' = [returned EXCEPT !.items = dict_set(@, "A", CardValue050)]
    /\ tracker' = IF returned.ref = "self.balances"
                  THEN [tracker EXCEPT !.balances = dict_set(@, "A", CardValue050)]
                  ELSE tracker
    /\ last' = [op |-> "mutate_returned", arg |-> "A", ret |-> PyNone]
    /\ UNCHANGED <<card_value, clock, calc, frame, db, session, active_games, peer, auth>>

\* tracker.get_summary(): summary = self.history.copy(), then the Total
\* column is set on summary
GetSummary ==
    /\ frame.pc = "idle"
    /\ LET summary == history_copy(tracker)
           total   == get_summary(tracker).Total
       IN  tracker' = IF summary.ref = "self.history"
                      THEN [tracker EXCEPT !.history = set_column(@, <<"Total">>, total)]
                      ELSE tracker
    /\ last' = [op |-> "get_summary", arg |-> PyNone, ret |-> get_summary(tracker)]
    /\ frame' = Idle
    /\ returned' = NoObject
    /\ UNCHANGED <<card_value, clock, calc, db, session, active_games, peer, auth>>

ApiNext ==
    \/ New
    \/ AddRoundCall
    \/ AddRoundComputePayouts
    \/ AddRoundBalances
    \/ AddRoundHistory
    \/ AddRoundTxLog
    \/ GetBalances
    \/ MutateReturned
    \/ GetSummary

SpecApi == ApiInit /\ [][ApiNext]_vars

(***************************************************************************)
(* The player registry and the archive: players are registered, finished   *)
(* games are archived and deleted again, and the lifetime statistics are   *)
(* recalculated.                                                           *)
(***************************************************************************)
StatsMaxGames == 3
StatsMaxIssued == 5

\* 0.6 and 1.5 as binary64
Net060 == <<1, 2457, 10066329, 10066304>>
Net150 == <<1, 6144, 0, 0>>

\* What finished games leave in an archive entry: the final totals and the
\* per-round results of each player (none in entries of the older format)
ArchiveGames ==
    {[final_totals  |-> <<<<"A", Net060>>, <<"B", FNeg(Net060)>>>>,
      round_history |-> <<<<"A", <<Net060>>>>, <<"B", <<FNeg(Net060)>>>>>>],
     [final_totals  |-> <<<<"A", FNeg(Net150)>>, <<"B", Net150>>>>,
      round_history |-> <<<<"A", <<FNeg(Net150), FZero>>>>, <<"B", <<Net150, FZero>>>>>>],
     [final_totals  |-> <<<<"B", Net060>>, <<"C", FNeg(Net060)>>>>,
      round_history |-> <<>>]}

\* Names typed into the Player Management tab
StatsNames == {"C", "a", " "}

StatsInit ==
    /\ tracker = CardGameTracker(LedgerPlayers)
    /\ card_value = CardValue020
    /\ clock = 0
    /\ last = [op |-> "init", arg |-> PyNone, ret |-> PyNone]
    /\ calc = [stage |-> "idle"]
    /\ frame = Idle
    /\ returned = NoObject
    /\ db = add_player(add_player(EmptyDb, "A", 0).db, "B", 0).db
    /\ session = NoSession
    /\ active_games = <<>>
    /\ peer = NoPeer
    /\ auth = NoLogin

\* models.add_player(name)
AddPlayer ==
    \E name \in StatsNames :
        /\ db.issued < StatsMaxIssued
        /\ db' = add_player(db, name, clock).db
        /\ last' = [op |-> "add_player", arg |-> name, ret |-> add_player(db, name, clock).ret]
        /\ UNCHANGED <<tracker, card_value, clock, calc, frame, returned, session,
                       active_games, peer, auth>>

\* models.add_archived_game(entry), the entry stamped with the current second;
\* the clock may have moved on to the next second since the last entry
AddArchivedGame ==
    \E game \in ArchiveGames, created_at \in {clock, clock + 1} :
        /\ Len(db.archived_games) < StatsMaxGames
        /\ db.issued < StatsMaxIssued
        /\ created_at <= MaxClock
        /\ LET entry == [archive_id    |-> db.issued + 1,
                         created_at    |-> created_at,
                         final_totals  |-> game.final_totals,
                         round_history |-> game.round_history]
           IN  /\ db' = add_archived_game([db EXCEPT !.issued = @ + 1], entry, created_at)
               /\ last' = [op |-> "add_archived_game", arg |-> entry.archive_id,
                           ret |-> PyInt(entry.archive_id)]
        /\ clock' = created_at
        /\ UNCHANGED <<tracker, card_value, calc, frame, returned, session, active_games, peer,
                       auth>>

\* models.delete_archived_game(archive_id)
DeleteArchivedGame ==
    \E archive_id \in 1..db.issued :
        /\ LET deleted == db_delete_archived_game(db, archive_id)
           IN  /\ IF deleted.ret = PyBool(TRUE)
                  THEN \E games \in get_all_archived_games(deleted.db) :
                          db' = recalculate_all_player_stats(deleted.db, games, clock)
                  ELSE db' = deleted.db
               /\ last' = [op |-> "delete_archived_game", arg |-> archive_id,
                           ret |-> deleted.ret]
        /\ UNCHANGED <<tracker, card_value, clock, calc, frame, returned, session,
                       active_games, peer, auth>>

\* models.recalculate_all_player_stats()
RecalculateAllPlayerStats ==
    \E games \in get_all_archived_games(db) :
        /\ db' = recalculate_all_player_stats(db, games, clock)
        /\ last' = [op |-> "recalculate_all_player_stats", arg |-> PyNone, ret |-> PyNone]
        /\ UNCHANGED <<tracker, card_value, clock, calc, frame, returned, session,
                       active_games, peer, auth>>

\* models.clear_all_archived_games()
ClearAllArchivedGames ==
    /\ LET cleared == db_clear_all_archived_games(db)
       IN  \E games \in get_all_archived_games(cleared) :
              db' = recalculate_all_player_stats(cleared, games, clock)
    /\ last' = [op |-> "clear_all_archived_games", arg |-> PyNone, ret |-> PyNone]
    /\ UNCHANGED <<tracker, card_value, clock, calc, frame, returned, session, active_games,
                   peer, auth>>

StatsNext ==
    \/ AddPlayer
    \/ ClearAllArchivedGames
    \/ AddArchivedGame
    \/ DeleteArchivedGame
    \/ RecalculateAllPlayerStats

SpecStats == StatsInit /\ [][StatsNext]_vars

(***************************************************************************)
(* The player registry on its own: the Player Management tab's Add and     *)
(* Remove Selected, and the Danger Zone's clearing of the players table.   *)
(***************************************************************************)
RegistryMaxIssued == 4

\* Names typed into the Player Management tab
RegistryNames == {"C", "a", " ", " A", "É", "é"}

\* Names handed to delete_player_by_name
DeleteNames == {"A", "a", "C"}

RegistryInit == StatsInit

\* models.add_player(name)
RegisterPlayer ==
    \E name \in RegistryNames :
        /\ db.issued < RegistryMaxIssued
        /\ db' = add_player(db, name, clock).db
        /\ last' = [op |-> "add_player", arg |-> name, ret |-> add_player(db, name, clock).ret]
        /\ UNCHANGED <<tracker, card_value, clock, calc, frame, returned, session,
                       active_games, peer, auth>>

\* models.delete_player_by_name(name, active_players), as the Remove Selected
\* handler calls it: active_players is set(tracker.players), or set() when
\* the session has no game
DeletePlayerByName ==
    \E name \in DeleteNames, active_players \in {{}, Range(tracker.players)} :
        /\ LET deleted == delete_player_by_name(db, name, active_players)
           IN  /\ db' = deleted.db
               /\ last' = [op |-> "delete_player_by_name",
                           arg |-> <<name, active_players>>, ret |-> deleted.ret]
        /\ UNCHANGED <<tracker, card_value, clock, calc, frame, returned, session,
                       active_games, peer, auth>>

\* models.clear_all_players()
ClearAllPlayers ==
    /\ db' = [db EXCEPT !.players = <<>>]
    /\ last' = [op |-> "clear_all_players", arg |-> PyNone, ret |-> PyNone]
    /\ UNCHANGED <<tracker, card_value, clock, calc, frame, returned, session, active_games,
                   peer, auth>>

RegistryNext ==
    \/ RegisterPlayer
    \/ DeletePlayerByName
    \/ ClearAllPlayers

SpecRegistry == RegistryInit /\ [][RegistryNext]_vars

(***************************************************************************)
(* The Current Game tab and the sidebar of main.py: one browser session    *)
(* and the handlers of its buttons.  A handler runs to its end, or to the  *)
(* exception that ends the script run, before the next one starts.         *)
(***************************************************************************)
UiMaxStored == 2
UiMaxIssued == 5

\* sum(card_counts.values()), the counts being ints
RECURSIVE sum_of_counts(_)
sum_of_counts(card_counts) ==
    IF Len(card_counts) = 0 THEN 0
    ELSE card_counts[1][2] + sum_of_counts(Tail(card_counts))

\* A slip in the save: INSERT OR IGNORE, the row of a stored game is kept
db_save_ignoring(table, game_id, snapshot) ==
    IF \E k \in 1..Len(table) : table[k].game_id = game_id
    THEN table
    ELSE Append(table, [game_id |-> game_id, snapshot |-> json_dumps(snapshot)])

\* INSERT OR REPLACE INTO active_games (game_id, snapshot, ...)
db_save_active_game(table, game_id, snapshot) ==
    LET row == [game_id |-> game_id, snapshot |-> json_dumps(snapshot)]
    IN  IF \E k \in 1..Len(table) : table[k].game_id = game_id
        THEN [k \in 1..Len(table) |-> IF table[k].game_id = game_id THEN row ELSE table[k]]
        ELSE Append(table, row)

\* DELETE FROM active_games WHERE game_id = ?
db_delete_active_game(table, game_id) ==
    SelectSeq(table, LAMBDA row : row.game_id # game_id)

\* init_session_state() for the game_id of the URL (PyNone without one): the
\* session, the tracker and the card value it sets
init_session_state(table, game_id) ==
    IF game_id # PyNone /\ \E k \in 1..Len(table) : table[k].game_id = game_id
    THEN LET row == table[CHOOSE k \in 1..Len(table) : table[k].game_id = game_id]
             r   == restore_tracker_from_snapshot(load_active_game(row))
         IN  [session    |-> [tracker |-> "CardGameTracker", round_num |-> r.round_num,
                              game_id |-> game_id, archived_this_game |-> FALSE],
              tracker    |-> r.tracker,
              card_value |-> r.card_value]
    ELSE [session    |-> NoSession,
          tracker    |-> CardGameTracker(<<>>),
          card_value |-> DEFAULT_CARD_VALUE]

\* A slip in the Remove Round handler: the round counter is left as it is
round_num_kept(round_to_remove, round_num) == round_num

\* if round_to_remove < round_num: round_num -= 1   (main.py:323-324)
round_num_after_remove(round_to_remove, round_num) ==
    IF round_to_remove < round_num THEN round_num - 1 ELSE round_num

\* final_totals = tracker.get_summary()["Total"].to_dict()
final_totals_of(t) ==
    [k \in 1..Len(t.players) |-> <<t.players[k], get_summary(t).Total[t.players[k]]>>]

\* round_history[player] = [float(history.loc[player, col]) for col in columns]
round_history_of(t) ==
    [k \in 1..Len(t.players) |->
        <<t.players[k], [c \in 1..Len(t.history) |-> t.history[c].vals[t.players[k]]]>>]

\* A slip in winner_order: the items are left in the order of the dict
sorted_as_given(items) == items

\* sorted(items, key=lambda x: x[1], reverse=True): descending by value,
\* items of equal value in their original order
RECURSIVE sorted_by_total_reverse(_)
sorted_by_total_reverse(items) ==
    IF Len(items) = 0 THEN <<>>
    ELSE LET front == sorted_by_total_reverse(SubSeq(items, 1, Len(items) - 1))
             item  == items[Len(items)]
             pos   == Cardinality({k \in 1..Len(front) : ~FLess(front[k][2], item[2])})
         IN  SubSeq(front, 1, pos) \o <<item>> \o SubSeq(front, pos + 1, Len(front))

\* The archive_entry dict of the Add to Log handler (main.py:278-288)
archive_entry(t, archive_id, created_at, game_id, cv) ==
    LET final_totals == final_totals_of(t)
        ordered      == sorted_by_total_reverse(final_totals)
    IN  [archive_id    |-> archive_id,
         created_at    |-> created_at,
         game_id       |-> game_id,
         players       |-> t.players,
         rounds_played |-> Len(t.history),
         card_value    |-> cv,
         final_totals  |-> final_totals,
         winner_order  |-> [k \in 1..Len(ordered) |-> ordered[k][1]],
         round_history |-> round_history_of(t)]

\* The ledger left by add_round(card_counts, card_value) for each dict of a
\* list of card counts, in turn
RECURSIVE played(_, _, _)
played(players, cv, rounds) ==
    IF Len(rounds) = 0 THEN CardGameTracker(players)
    ELSE add_round(played(players, cv, SubSeq(rounds, 1, Len(rounds) - 1)),
                   rounds[Len(rounds)], cv, Len(rounds) - 1).tracker

\* The lists of at most n elements of a set
RECURSIVE SeqsUpTo(_, _)
SeqsUpTo(S, n) ==
    IF n = 0 THEN {<<>>}
    ELSE SeqsUpTo(S, n - 1) \cup
         {Append(q, x) : q \in {q \in SeqsUpTo(S, n - 1) : Len(q) = n - 1}, x \in S}

\* Card counts of the rounds of stored games
StoredRounds ==
    {<<<<"A", 0>>, <<"B", 0>>, <<"C", 1>>>>,
     <<<<"A", 0>>, <<"B", 1>>, <<"C", 1>>>>,
     <<<<"A", 1>>, <<"B", 0>>, <<"C", 1>>>>}

\* A game an earlier session left in active_games: the snapshot that
\* save_game_snapshot writes for a ledger of rounds added by add_round, with
\* the number of the next round
StoredGames ==
    {save_game_snapshot(played(LedgerPlayers, cv, rounds), Len(rounds) + 1, cv) :
        cv \in CardValues, rounds \in SeqsUpTo(StoredRounds, UiMaxStored)}

\* What the inputs above the Add Round button hold when it is pressed: the
\* card counts, the special hands and the bao player
UiRoundInputs(players) ==
    {<<card_counts, special_hands, bao_player>> :
        card_counts \in {[k \in 1..Len(players) |-> <<players[k], IF k = 1 THEN 0 ELSE c>>] :
                            c \in LedgerCards},
        special_hands \in {<<>>, <<<<players[1], 1>>>>},
        bao_player \in BaoPlayersOver(players)}

\* The players picked in the sidebar's multiselect
UiSelections == {<<>>, <<"A", "B">>, <<"A", "B", "C">>}

\* The registry with A, B and C
UiRegistry ==
    add_player(add_player(add_player(EmptyDb, "A", 0).db, "B", 0).db, "C", 0).db

\* The session init_session_state sets up: for a URL without game_id and an
\* empty active_games table, or for the game_id of a stored game
UiInit ==
    /\ clock = UiMaxStored
    /\ last = [op |-> "init_session_state", arg |-> PyNone, ret |-> PyNone]
    /\ calc = [stage |-> "idle"]
    /\ frame = Idle
    /\ returned = NoObject
    /\ peer = NoPeer
    /\ auth = LoggedIn
    /\ \/ /\ db = UiRegistry
          /\ active_games = <<>>
          /\ session = init_session_state(<<>>, PyNone).session
          /\ tracker = init_session_state(<<>>, PyNone).tracker
          /\ card_value = init_session_state(<<>>, PyNone).card_value
       \/ \E stored \in StoredGames :
             LET game_id == PyInt(UiRegistry.issued + 1)
                 table   == db_save_active_game(<<>>, game_id, stored)
                 opened  == init_session_state(table, game_id)
             IN  /\ db = [UiRegistry EXCEPT !.issued = @ + 1]
                 /\ active_games = table
                 /\ session = opened.session
                 /\ tracker = opened.tracker
                 /\ card_value = opened.card_value

\* "Start / Update Game" (main.py:104-126)
StartGame ==
    \E selected_players \in UiSelections, card_val_input \in CardValues :
        /\ db.issued < UiMaxIssued
        /\ IF Len(selected_players) = 0
           THEN /\ last' = [op |-> "start_game", arg |-> selected_players,
                            ret |-> PyStr("Select at least one player!")]
                /\ UNCHANGED <<tracker, card_value, db, session, active_games>>
           ELSE LET game_id == PyInt(db.issued + 1)
                    t       == CardGameTracker(selected_players)
                IN  /\ tracker' = t
                    /\ session' = [tracker |-> "CardGameTracker", round_num |-> 1,
                                   game_id |-> game_id, archived_this_game |-> FALSE]
                    /\ card_value' = card_val_input
                    /\ db' = [db EXCEPT !.issued = @ + 1]
                    /\ active_games' = db_save_active_game(active_games, game_id,
                                          save_game_snapshot(t, 1, card_val_input))
                    /\ last' = [op |-> "start_game", arg |-> selected_players,
                                ret |-> PyNone]
        /\ UNCHANGED <<clock, calc, frame, returned, peer, auth>>

\* "Reset Game" (main.py:128-147)
ResetGame ==
    /\ active_games' = IF session.game_id # PyNone
                       THEN db_delete_active_game(active_games, session.game_id)
                       ELSE active_games
    /\ session' = NoSession
    /\ tracker' = CardGameTracker(<<>>)
    /\ card_value' = DEFAULT_CARD_VALUE
    /\ last' = [op |-> "reset_game", arg |-> PyNone, ret |-> PyNone]
    /\ UNCHANGED <<clock, calc, frame, returned, db, peer, auth>>

\* "Add Round" (main.py:222-236), with the card counts, special hands and
\* bao player of the inputs above the button
AddRoundButton ==
    /\ session.tracker # "None"
    /\ clock < MaxClock + UiMaxStored
    /\ \E inputs \in UiRoundInputs(tracker.players) :
       LET card_counts == inputs[1]
           args        == <<card_counts, card_value, inputs[2], inputs[3]>>
       IN
          /\ IF sum_of_counts(card_counts) = 0
             THEN /\ last' = [op |-> "add_round_button", arg |-> args,
                              ret |-> PyStr("Enter card counts first!")]
                  /\ UNCHANGED <<tracker, session, active_games, clock>>
             ELSE IF bind_add_round(args) # PyNone
             THEN /\ last' = [op |-> "add_round_button", arg |-> args,
                              ret |-> bind_add_round(args)]
                  /\ UNCHANGED <<tracker, session, active_games, clock>>
             ELSE LET r == add_round(tracker, args[1], args[2], clock)
                  IN  /\ tracker' = r.tracker
                      /\ session' = [session EXCEPT !.round_num = @ + 1]
                      /\ active_games' =
                            db_save_active_game(active_games, session.game_id,
                               save_game_snapshot(r.tracker, session.round_num + 1,
                                                  card_value))
                      /\ clock' = clock + 1
                      /\ last' = [op |-> "add_round_button", arg |-> args, ret |-> r.ret]
    /\ UNCHANGED <<card_value, calc, frame, returned, db, peer, auth>>

\* "Undo Last Round" (main.py:238-251); the button is disabled while the
\* history has no column
UndoButton ==
    /\ session.tracker # "None"
    /\ Len(tracker.history) # 0
    /\ LET r == undo_last_round(tracker)
       IN  /\ tracker' = r.tracker
           /\ IF r.ret = PyBool(TRUE)
              THEN /\ session' = [session EXCEPT !.round_num = @ - 1]
                   /\ active_games' =
                         db_save_active_game(active_games, session.game_id,
                            save_game_snapshot(r.tracker, session.round_num - 1,
                                               card_value))
              ELSE UNCHANGED <<session, active_games>>
           /\ last' = [op |-> "undo_button", arg |-> PyNone, ret |-> r.ret]
    /\ UNCHANGED <<card_value, clock, calc, frame, returned, db, peer, auth>>

\* "Remove Round" (main.py:304-334); the section is drawn while the history
\* has a column and its number input ranges over the rounds
RemoveRoundButton ==
    /\ session.tracker # "None"
    /\ Len(tracker.history) # 0
    /\ \E round_to_remove \in 1..Len(tracker.history) :
          LET r         == remove_round(tracker, round_to_remove)
              round_num == round_num_after_remove(round_to_remove, session.round_num)
          IN  /\ tracker' = r.tracker
              /\ IF r.ret = PyBool(TRUE)
                 THEN /\ session' = [session EXCEPT !.round_num = round_num]
                      /\ active_games' =
                            db_save_active_game(active_games, session.game_id,
                               save_game_snapshot(r.tracker, round_num, card_value))
                 ELSE UNCHANGED <<session, active_games>>
              /\ last' = [op |-> "remove_round_button", arg |-> round_to_remove,
                          ret |-> r.ret]
    /\ UNCHANGED <<card_value, clock, calc, frame, returned, db, peer, auth>>

\* "Add to Log" (main.py:262-293); the button is disabled while the history
\* has no column and once the game is archived
AddToLog ==
    /\ session.tracker # "None"
    /\ Len(tracker.history) # 0
    /\ ~session.archived_this_game
    /\ LET entry == archive_entry(tracker, db.issued + 1, clock, session.game_id,
                                  card_value)
       IN  /\ db' = add_archived_game([db EXCEPT !.issued = @ + 1], entry, clock)
           /\ last' = [op |-> "add_to_log", arg |-> entry, ret |-> PyNone]
    /\ session' = [session EXCEPT !.archived_this_game = TRUE]
    /\ UNCHANGED <<tracker, card_value, clock, calc, frame, returned, active_games, peer, auth>>

UiNext ==
    \/ StartGame
    \/ ResetGame
    \/ AddRoundButton
    \/ UndoButton
    \/ RemoveRoundButton
    \/ AddToLog

SpecUi == UiInit /\ [][UiNext]_vars

(***************************************************************************)
(* A stored game opened in browser sessions: the game's URL is opened in   *)
(* new sessions, and two sessions are used in turn.  The session whose     *)
(* handlers run is in tracker, card_value and session; the other one waits *)
(* in peer.                                                                *)
(***************************************************************************)
SharedInit ==
    /\ UiInit
    /\ session.tracker # "None"
    /\ Len(tracker.history) = UiMaxStored

\* The URL of a stored game is opened in a session that has run nothing yet:
\* init_session_state restores the game from its snapshot (main.py:53-62)
OpenGameUrl ==
    \E k \in 1..Len(active_games) :
        LET game_id == active_games[k].game_id
            opened  == init_session_state(active_games, game_id)
        IN  /\ session = NoSession
            /\ session' = opened.session
            /\ tracker' = opened.tracker
            /\ card_value' = opened.card_value
            /\ last' = [op |-> "init_session_state", arg |-> game_id, ret |-> PyNone]
            /\ UNCHANGED <<clock, calc, frame, returned, db, active_games, peer, auth>>

\* The user turns to the other browser session
SwitchSession ==
    /\ peer' = [session |-> session, tracker |-> tracker, card_value |-> card_value]
    /\ session' = peer.session
    /\ tracker' = peer.tracker
    /\ card_value' = peer.card_value
    /\ last' = [op |-> "switch_session", arg |-> PyNone, ret |-> PyNone]
    /\ UNCHANGED <<clock, calc, frame, returned, db, active_games, auth>>

\* Two sessions write the snapshot of one game
SharedNext ==
    \/ OpenGameUrl
    \/ SwitchSession
    \/ AddRoundButton
    \/ UndoButton
    \/ RemoveRoundButton

SpecShared == SharedInit /\ [][SharedNext]_vars

\* Two sessions archive one game
ReopenNext ==
    \/ OpenGameUrl
    \/ SwitchSession
    \/ AddRoundButton
    \/ UndoButton
    \/ AddToLog

SpecReopen == SharedInit /\ [][ReopenNext]_vars

(***************************************************************************)
(* The password gate: main.py runs from its first line on every            *)
(* interaction, and stops at the login form while the session is not       *)
(* authenticated.  In auth, authenticated = FALSE stands for a session     *)
(* state without the key "authenticated" (the code reads the key through   *)
(* .get("authenticated", False) only), and initialized for the key         *)
(* "initialized" of init_session_state.                                    *)
(***************************************************************************)
\* config.py:37-42
ENABLE_PASSWORD_PROTECTION == TRUE
APP_PASSWORD == "weijiangruinmylife"
ENABLE_MULTI_USER == FALSE

\* What is typed into the password field
Passwords == {APP_PASSWORD, "Weijiangruinmylife", ""}

check_authentication_open(state) == TRUE

\* auth.check_authentication (auth.py:11-26)
check_authentication(state) ==
    IF ~ENABLE_PASSWORD_PROTECTION
    THEN TRUE
    ELSE state.authenticated

\* The authentication check at the top of the script (main.py:18-21): TRUE
\* when the script goes on to the main app
passes_gate(state) == ~(ENABLE_PASSWORD_PROTECTION /\ ~check_authentication(state))

\* The Login button of auth.login_form (auth.py:48-60): the session state
\* it leaves
login_form(state, password) ==
    IF ENABLE_MULTI_USER
    THEN state
    ELSE IF password = APP_PASSWORD
         THEN [state EXCEPT !.authenticated = TRUE]
         ELSE state

\* auth.logout (auth.py:66-81)
logout(state) == [state EXCEPT !.authenticated = FALSE]

\* The game_id of the URL the session was opened with: none, or the id of a
\* stored game
UrlGameIds(table) == {PyNone} \cup {table[k].game_id : k \in 1..Len(table)}

\* A session that has been shown the login form and nothing else; the
\* active_games table is empty or holds a game an earlier session left
AuthInit ==
    /\ clock = UiMaxStored
    /\ last = [op |-> "login_form", arg |-> PyNone, ret |-> PyNone]
    /\ calc = [stage |-> "idle"]
    /\ frame = Idle
    /\ returned = NoObject
    /\ peer = NoPeer
    /\ auth = NoLogin
    /\ session = NoSession
    /\ tracker = CardGameTracker(<<>>)
    /\ card_value = DEFAULT_CARD_VALUE
    /\ \/ /\ db = UiRegistry
          /\ active_games = <<>>
       \/ \E stored \in StoredGames :
             /\ db = [UiRegistry EXCEPT !.issued = @ + 1]
             /\ active_games = db_save_active_game(<<>>, PyInt(UiRegistry.issued + 1), stored)

\* The Login button (auth.py:54-60).  A right password sets the flag and
\* reruns the script (auth.py:56-58); the rerun passes the check of
\* main.py:18 and reaches init_session_state (main.py:71), which sets the
\* session up when it has not been set up before.
LoginButton ==
    /\ ~passes_gate(auth)
    /\ \E password \in Passwords, url_game_id \in UrlGameIds(active_games) :
          LET logged == login_form(auth, password)
              rerun  == ~ENABLE_MULTI_USER /\ password = APP_PASSWORD
              opened == init_session_state(active_games, url_game_id)
          IN  /\ last' = [op |-> "login", arg |-> PyStr(password),
                          ret |-> IF rerun THEN PyStr("Login successful!")
                                  ELSE IF ENABLE_MULTI_USER
                                  THEN PyStr("Multi-user authentication not yet implemented!")
                                  ELSE PyStr("Incorrect password!")]
              /\ IF rerun /\ passes_gate(logged) /\ ~logged.initialized
                 THEN /\ auth' = [logged EXCEPT !.initialized = TRUE]
                      /\ session' = opened.session
                      /\ tracker' = opened.tracker
                      /\ card_value' = opened.card_value
                 ELSE /\ auth' = logged
                      /\ UNCHANGED <<tracker, card_value, session>>
    /\ UNCHANGED <<clock, calc, frame, returned, db, active_games, peer>>

\* The Logout button of the sidebar (auth.py:84-90, called at main.py:79):
\* logout, then a rerun that stops at the login form
LogoutButton ==
    /\ passes_gate(auth)
    /\ ENABLE_PASSWORD_PROTECTION /\ auth.authenticated
    /\ auth' = logout(auth)
    /\ last' = [op |-> "logout", arg |-> PyNone, ret |-> PyNone]
    /\ UNCHANGED <<tracker, card_value, clock, calc, frame, returned, db, session,
                   active_games, peer>>

\* The handlers of the main app run in a script run that has passed the
\* check of main.py:18-21
AuthNext ==
    \/ LoginButton
    \/ LogoutButton
    \/ passes_gate(auth) /\ StartGame
    \/ passes_gate(auth) /\ ResetGame
    \/ passes_gate(auth) /\ AddRoundButton
    \/ passes_gate(auth) /\ UndoButton
    \/ passes_gate(auth) /\ RemoveRoundButton
    \/ passes_gate(auth) /\ AddToLog
    \/ passes_gate(auth) /\ ClearAllPlayers

SpecAuth == AuthInit /\ [][AuthNext]_vars

(***************************************************************************)
(* The registry and the archive together: players come and go while games *)
(* are archived and deleted.                                               *)
(***************************************************************************)
\* The number of ids issued to players and archive entries in a run
AgreeMaxIssued == 4

AgreeNext ==
    \/ db.issued < AgreeMaxIssued /\ AddPlayer
    \/ db.issued < AgreeMaxIssued /\ AddArchivedGame
    \/ DeletePlayerByName
    \/ DeleteArchivedGame

SpecAgree == StatsInit /\ [][AgreeNext]_vars

(***************************************************************************)
(* The ledger called with card counts that leave players of the game out.  *)
(***************************************************************************)
\* The number of add_round calls of a run
PartialMaxRounds == 2

\* The sub-lists of a list, in the list's order
RECURSIVE SubLists(_)
SubLists(seq) ==
    IF Len(seq) = 0 THEN {<<>>}
    ELSE LET rest == SubLists(Tail(seq))
         IN  rest \cup {<<Head(seq)>> \o q : q \in rest}

\* The card_counts dicts that name all players of the list or all but one
PartialCardCounts(players) ==
    UNION {CardCountsOver(keys, LedgerCards) :
              keys \in {q \in SubLists(players) : Len(q) >= Len(players) - 1}}

AddRoundPartial ==
    \E card_counts \in PartialCardCounts(tracker.players) :
        /\ clock < PartialMaxRounds
        /\ LET r == add_round(tracker, card_counts, card_value, clock)
           IN  /\ tracker' = r.tracker
               /\ last' = [op |-> "add_round", arg |-> card_counts, ret |-> r.ret]
        /\ clock' = clock + 1
        /\ UNCHANGED <<card_value, calc, frame, returned, db, session, active_games,
                       peer, auth>>

PartialNext == AddRoundPartial \/ UndoLastRound \/ RemoveRound

SpecPartial == Init /\ [][PartialNext]_vars

(***************************************************************************)
(* The claims.                                                             *)
(***************************************************************************)
Rounds == 1..Len(tracker.history)

PlayerSet == Range(tracker.players)

\* The payout of player p in the round at position r of history
Cell(r, p) == tracker.history[r].vals[p]

\* The cells of column r over the players in index order, as a dict
ColumnDict(r) == [k \in 1..Len(tracker.players) |->
                    <<tracker.players[k], Cell(r, tracker.players[k])>>]

\* C1: for non-empty card_counts and card_value > 0, the values compute_payouts
\* returns sum to exactly 0 (as Python's sum() adds them, or over the reals).
C1_ZeroSum ==
    calc.stage = "done" =>
        \/ sum_values(calc.payouts) = FZero
        \/ exact_sum_values(calc.payouts) = FZero

\* C1 (case reached): compute_payouts has been applied to three or more players
\* of whom one reports cards and one reports none.
C1_Witness ==
    /\ calc.stage = "done"
    /\ Len(calc.card_counts) >= 3
    /\ \E i, j \in 1..Len(calc.card_counts) :
          calc.card_counts[i][2] = 0 /\ calc.card_counts[j][2] > 0

\* C2: after any sequence of add_round / undo_last_round / remove_round, for
\* every player balances[p] equals the sum of the player's payouts over the
\* rounds now in history, which is get_summary's Total for p.
C2_BalanceConsistency ==
    \A p \in PlayerSet : Get(tracker.balances, p) = get_summary(tracker).Total[p]

\* C2 (case reached): a round has been taken out again and rounds remain.
C2_Witness ==
    /\ last.op \in {"undo_last_round", "remove_round"}
    /\ last.ret = PyBool(TRUE)
    /\ Len(tracker.history) >= 1

\* C3: after any sequence of add_round / undo_last_round / remove_round the
\* history columns are labelled R1..Rm in order, m the number of rounds, and
\* tx_log[i].round == i + 1 for every (0-based) index i.
C3_Renumbering ==
    /\ \A c \in Rounds : tracker.history[c].label = col_name(c)
    /\ \A k \in 1..Len(tracker.tx_log) : tracker.tx_log[k].round = k

\* C3 (case reached): remove_round(k) has removed a round that had later
\* rounds after it.
C3_Witness ==
    /\ last.op = "remove_round"
    /\ last.ret = PyBool(TRUE)
    /\ last.arg <= Len(tracker.history)

\* C4: in every reachable state history and tx_log hold the same number of
\* rounds.
C4_SameLength == Len(tracker.history) = Len(tracker.tx_log)

\* C4 (case reached): rounds were added, one was removed by number and one
\* more was undone, and a round remains.
C4_Witness ==
    /\ last.op = "undo_last_round"
    /\ last.ret = PyBool(TRUE)
    /\ Len(tracker.history) = 1
    /\ clock = MaxClock

\* C5: on a ledger with n >= 1 rounds, undo_last_round() and remove_round(n)
\* both return True and leave the same balances, history and tx_log.
C5_UndoIsRemoveLast ==
    Len(tracker.history) >= 1 =>
        /\ undo_last_round(tracker).ret = PyBool(TRUE)
        /\ remove_round(tracker, Len(tracker.history)).ret = PyBool(TRUE)
        /\ undo_last_round(tracker).tracker
              = remove_round(tracker, Len(tracker.history)).tracker

\* C5 (case reached): the last of several rounds has just been taken out, by
\* either operation, and rounds remain to take out again.
C5_Witness ==
    /\ \/ last.op = "undo_last_round"
       \/ last.op = "remove_round" /\ last.arg = Len(tracker.history) + 1
    /\ last.ret = PyBool(TRUE)
    /\ Len(tracker.history) >= 2

\* What remove_round(k) leaves alone, between the tracker t before the call
\* and the tracker u after it: the rounds before k keep their payout vector
\* and record, the rounds after k keep theirs and move down by one.
RemoveFrame(t, u, k) ==
    /\ Len(u.history) = Len(t.history) - 1
    /\ Len(u.tx_log) = Len(t.tx_log) - 1
    /\ \A i \in 1..(k - 1) :
          /\ u.history[i].vals = t.history[i].vals
          /\ u.tx_log[i] = t.tx_log[i]
    /\ \A i \in (k + 1)..Len(t.history) :
          /\ u.history[i - 1].vals = t.history[i].vals
          /\ u.history[i - 1].label = col_name(i - 1)
          /\ u.tx_log[i - 1] = [t.tx_log[i] EXCEPT !.round = i - 1]

\* C6: remove_round(k) with 1 <= k <= n removes only round k: the other rounds
\* keep their payout vector, card_counts, card_value and timestamp, the later
\* ones renumbered down by one, and balances become the sum of the remaining
\* rounds.
C6_RemoveOnlyThatRound ==
    [][(last'.op = "remove_round" /\ last'.ret = PyBool(TRUE)) =>
          /\ RemoveFrame(tracker, tracker', last'.arg)
          /\ \A p \in PlayerSet :
                Get(tracker'.balances, p) = row_sum(tracker'.history, p)]_vars

\* C6, the part about the rounds alone (without the balances).
C6_RoundsKept ==
    [][(last'.op = "remove_round" /\ last'.ret = PyBool(TRUE)) =>
          RemoveFrame(tracker, tracker', last'.arg)]_vars

\* C6 (case reached): round 2 of 3 has been removed.
C6_Witness ==
    /\ last.op = "remove_round"
    /\ last.ret = PyBool(TRUE)
    /\ last.arg = 2
    /\ Len(tracker.history) = 2

\* C7: for every reachable ledger state, the empty ledger included, restoring
\* the stored snapshot gives a tracker with the same players, balances,
\* history and tx_log, and the round_num and card_value that were saved.
C7_SnapshotRoundTrip ==
    last.op = "restore" =>
        /\ last.ret.tracker = tracker
        /\ last.ret.round_num = last.arg
        /\ last.ret.card_value = card_value

\* C7 (case reached): a ledger that has had a round removed and still holds
\* two rounds has been saved and restored.
C7_Witness ==
    /\ last.op = "restore"
    /\ Len(tracker.history) = 2
    /\ clock = MaxClock
    /\ tracker.tx_log[1].payouts # tracker.tx_log[2].payouts

\* C8: tx_log is index-aligned with history: the payouts stored in tx_log[i]
\* are the payout vector of round i + 1 of history.
C8_LogAligned ==
    \A k \in 1..Len(tracker.tx_log) :
        /\ k <= Len(tracker.history)
        /\ \A p \in PlayerSet :
              /\ HasKey(tracker.tx_log[k].payouts, p)
              /\ Get(tracker.tx_log[k].payouts, p) = Cell(k, p)

\* C8 (case reached): the first of three rounds with different payouts has
\* been removed.
C8_Witness ==
    /\ last.op = "remove_round"
    /\ last.ret = PyBool(TRUE)
    /\ last.arg = 1
    /\ Len(tracker.tx_log) = 2
    /\ tracker.tx_log[1].payouts # tracker.tx_log[2].payouts

\* C9: every payout vector in history sums to 0 over the ledger's players,
\* and so do the balances (as Python's sum() adds them, or over the reals).
C9_HistoryZeroSum ==
    /\ \A r \in Rounds :
          \/ sum_values(ColumnDict(r)) = FZero
          \/ exact_sum_values(ColumnDict(r)) = FZero
    /\ \/ sum_values(tracker.balances) = FZero
       \/ exact_sum_values(tracker.balances) = FZero

\* C9 (case reached): a round in which somebody holds cards is in history.
C9_Witness ==
    \E r \in Rounds : \E p \in PlayerSet : Cell(r, p) # FZero

\* C10 as claimed: add_round on a ledger holding n rounds appends the payout
\* vector as round n + 1 and returns the round number n + 1.
C10_ReturnsRoundNumber ==
    last.op = "add_round" =>
        /\ tracker.history[Len(tracker.history)].label = col_name(Len(tracker.history))
        /\ last.ret = PyInt(Len(tracker.history))

\* C10 as amended: add_round on a ledger holding n rounds appends the payout
\* vector compute_payouts returns as round n + 1 (column R{n+1}, after the
\* unchanged columns R1..Rn), appends a tx_log record numbered n + 1, and
\* returns None.  (Only add_round advances the clock.)
C10_AppendsNextRound ==
    [][clock' = clock + 1 =>
          LET n       == Len(tracker.history)
              payouts == compute_payouts(last'.arg, card_value)
          IN  /\ last'.op = "add_round"
              /\ last'.ret = PyNone
              /\ Len(tracker'.history) = n + 1
              /\ SubSeq(tracker'.history, 1, n) = tracker.history
              /\ tracker'.history[n + 1].label = col_name(n + 1)
              /\ \A p \in PlayerSet :
                    tracker'.history[n + 1].vals[p] = Get(payouts, p)
              /\ Len(tracker'.tx_log) = Len(tracker.tx_log) + 1
              /\ SubSeq(tracker'.tx_log, 1, Len(tracker.tx_log)) = tracker.tx_log
              /\ tracker'.tx_log[Len(tracker'.tx_log)].round = n + 1
              /\ tracker'.tx_log[Len(tracker'.tx_log)].payouts = payouts]_vars

\* C10 (case reached): add_round has added a round after a removal renumbered
\* the rounds before it.
C10_Witness ==
    /\ last.op = "add_round"
    /\ clock = MaxClock
    /\ Len(tracker.history) = 2

\* C11: undo_last_round on a ledger with no rounds returns False and leaves
\* players, balances, history and tx_log as they were; on a ledger with at
\* least one round it returns True.
C11_UndoOnEmpty ==
    [][last'.op = "undo_last_round" =>
          IF Len(tracker.history) = 0
          THEN last'.ret = PyBool(FALSE) /\ tracker' = tracker
          ELSE last'.ret = PyBool(TRUE)]_vars

\* C11 (case reached): every round that was added is gone again and
\* undo_last_round has been refused.
C11_Witness ==
    /\ last.op = "undo_last_round"
    /\ last.ret = PyBool(FALSE)
    /\ clock >= 1
    /\ Len(tracker.history) = 0

\* C12: remove_round(r) with r < 1 or r > number of rounds returns False and
\* leaves the tracker as it was; with 1 <= r <= number of rounds it returns
\* True and the number of rounds goes down by exactly one.
C12_RemoveOutOfRange ==
    [][last'.op = "remove_round" =>
          LET r == last'.arg
              n == Len(tracker.history)
          IN  IF r < 1 \/ r > n
              THEN last'.ret = PyBool(FALSE) /\ tracker' = tracker
              ELSE /\ last'.ret = PyBool(TRUE)
                   /\ Len(tracker'.history) = n - 1
                   /\ Len(tracker'.tx_log) = n - 1]_vars

\* C12 (case reached): remove_round(n + 1) has been refused on a ledger that
\* holds n >= 1 rounds.
C12_Witness ==
    /\ last.op = "remove_round"
    /\ last.ret = PyBool(FALSE)
    /\ Len(tracker.history) >= 1
    /\ last.arg = Len(tracker.history) + 1

\* C13: add_round is atomic.  Once a call of add_round has ended, either it
\* returned and balances, history and tx_log all hold the new round (the
\* tracker is the one the whole of add_round produces from the tracker before
\* the call), or it raised and the tracker is the one before the call.
C13_AddRoundAtomic ==
    (last.op = "add_round" /\ last.ret # Running) =>
        /\ frame.pc = "idle"
        /\ \/ /\ last.ret = PyNone
              /\ tracker = add_round(frame.pre, frame.card_counts, frame.card_value,
                                     frame.now).tracker
              /\ Len(tracker.history) = Len(frame.pre.history) + 1
              /\ Len(tracker.tx_log) = Len(frame.pre.tx_log) + 1
           \/ /\ last.ret = Raise("TypeError")
              /\ tracker = frame.pre

\* C13 (case reached): a call of add_round has raised on a ledger that an
\* earlier call of add_round had completed a round on.
C13_Witness ==
    /\ last.op = "add_round"
    /\ last.ret = Raise("TypeError")
    /\ Len(tracker.history) >= 1
    /\ \E k \in 1..Len(tracker.balances) : tracker.balances[k][2] # FZero

\* C14: get_balances returns a copy: a caller's change to the returned dict
\* leaves the tracker (its balances included) as it was, and the calls of
\* get_balances and get_summary themselves leave the tracker as it was.
C14_DefensiveCopy ==
    [][(last'.op \in {"mutate_returned", "get_balances", "get_summary"}) =>
          /\ tracker' = tracker
          /\ last'.op = "get_balances" => /\ returned'.items = tracker.balances
                                          /\ last'.ret = tracker.balances
          /\ last'.op = "get_summary" => last'.ret.columns = tracker.history]_vars

\* C14 (case reached): the caller has changed the dict get_balances returned
\* for a ledger that holds a round with payouts, so that it differs from the
\* tracker's balances.
C14_Witness ==
    /\ last.op = "mutate_returned"
    /\ Len(tracker.history) >= 1
    /\ returned.items # tracker.balances
    /\ \E k \in 1..Len(tracker.balances) : tracker.balances[k][2] # FZero

\* A list that names some player twice
HasDuplicates(players) ==
    \E i, j \in 1..Len(players) : i # j /\ players[i] = players[j]

\* C15: constructing a ledger with an empty player list or with a player list
\* that contains a duplicate name fails with InvalidInput.
C15_RejectsBadPlayers ==
    (last.op = "new" /\ (Len(last.arg) = 0 \/ HasDuplicates(last.arg))) =>
        last.ret = Raise("InvalidInput")

\* C15 (case reached): the constructor has been called with a list that names
\* a player twice.
C15_Witness ==
    /\ last.op = "new"
    /\ HasDuplicates(last.arg)
    /\ tracker.players = last.arg

\* A call of add_round that has ended; its arguments are last.arg
AddRoundEnded == last.op = "add_round" /\ last.ret # Running

\* The round the last call of add_round added, if it added one
RoundAdded == Len(tracker.history) = Len(frame.pre.history) + 1

\* C16: add_round rejects card_counts that contain a negative count with
\* InvalidInput (as compute_payouts does), and the rejected call leaves
\* balances, history and tx_log as they were.
C16_RejectsNegativeCounts ==
    (/\ AddRoundEnded
     /\ Len(last.arg) = 2
     /\ \E k \in 1..Len(last.arg[1]) : last.arg[1][k][2] < 0) =>
        /\ last.ret = Raise("InvalidInput")
        /\ tracker = frame.pre

\* C16 (case reached): add_round(card_counts, card_value) has ended for
\* card_counts in which a player holds -1 cards and another holds none.
C16_Witness ==
    /\ AddRoundEnded
    /\ Len(last.arg) = 2
    /\ \E i, j \in 1..Len(last.arg[1]) :
          last.arg[1][i][2] < 0 /\ last.arg[1][j][2] = 0

\* C18: a round added with special_hands (and no bao player) gives the holder
\* 5 * card_value from every other player for each declared unit, whatever
\* the card counts: against the payouts of the same card counts without
\* special hands, the holder's payout is higher by 5 * card_value * (n - 1)
\* per unit and every other player's is lower by 5 * card_value per unit.
C18_SpecialHandsPaid ==
    (/\ AddRoundEnded
     /\ Len(last.arg) = 4
     /\ Len(last.arg[3]) = 1
     /\ last.arg[4] = PyNone) =>
        /\ last.ret = PyNone
        /\ RoundAdded
        /\ LET plain  == compute_payouts(last.arg[1], last.arg[2])
               n      == Len(last.arg[1])
               holder == last.arg[3][1][1]
               units  == last.arg[3][1][2]
               r      == Len(tracker.history)
           IN  \A p \in PlayerSet :
                  Cell(r, p) = IF p = holder
                               THEN FAdd(Get(plain, p), FMulInt(5 * units * (n - 1), last.arg[2]))
                               ELSE FSub(Get(plain, p), FMulInt(5 * units, last.arg[2]))

\* C18 (case reached): add_round has been called, as main.py calls it, with
\* special_hands that declare two units for a player, no bao player, and
\* card counts that are not all zero.
C18_Witness ==
    /\ AddRoundEnded
    /\ Len(last.arg) = 4
    /\ Len(last.arg[3]) = 1
    /\ last.arg[3][1][2] = 2
    /\ last.arg[4] = PyNone
    /\ \E k \in 1..Len(last.arg[1]) : last.arg[1][k][2] > 0

\* C19: a round added with a bao_player (and no special hands) makes the bao
\* player the sole payer of the pairwise step: the round is added, no player
\* other than the bao player is left with a net loss from the pairwise step
\* (the payout less the winner bonus), and the payout vector sums to 0.
C19_BaoSolePayer ==
    (/\ AddRoundEnded
     /\ Len(last.arg) = 4
     /\ Len(last.arg[3]) = 0
     /\ last.arg[4] # PyNone) =>
        /\ last.ret = PyNone
        /\ RoundAdded
        /\ LET n     == Len(last.arg[1])
               bonus == bonus_loop([k \in 1..n |-> FZero], last.arg[1],
                                   FMulInt(2, last.arg[2]), 0)
               r     == Len(tracker.history)
           IN  /\ \A k \in 1..n :
                     PyStr(last.arg[1][k][1]) # last.arg[4] =>
                        ~FLess(FSub(Cell(r, last.arg[1][k][1]), bonus[k]), FZero)
               /\ \/ sum_values(ColumnDict(r)) = FZero
                  \/ exact_sum_values(ColumnDict(r)) = FZero

\* C19 (case reached): add_round has been called, as main.py calls it, with a
\* bao player who holds fewer cards than another player, and no special hands.
C19_Witness ==
    /\ AddRoundEnded
    /\ Len(last.arg) = 4
    /\ Len(last.arg[3]) = 0
    /\ last.arg[4] # PyNone
    /\ \E i, j \in 1..Len(last.arg[1]) :
          /\ PyStr(last.arg[1][i][1]) = last.arg[4]
          /\ last.arg[1][i][2] < last.arg[1][j][2]

\* The card counts of the example: 4 players, A out of cards
SoleWinnerExample == <<<<"A", 0>>, <<"B", 5>>, <<"C", 8>>, <<"D", 13>>>>

\* C17: when exactly one player has 0 cards and another player has more than
\* 0, that player's payout from compute_payouts is strictly positive and
\* strictly greater than every other player's; for {A:0, B:5, C:8, D:13} at
\* card value 0.20 the payouts also sum to 0 (as Python's sum() adds them).
C17_SoleWinnerGainsMost ==
    calc.stage = "done" =>
        /\ \A w \in 1..Len(calc.card_counts) :
              (/\ calc.card_counts[w][2] = 0
               /\ \A k \in 1..Len(calc.card_counts) :
                     k # w => calc.card_counts[k][2] # 0
               /\ \E k \in 1..Len(calc.card_counts) : calc.card_counts[k][2] > 0) =>
                  /\ FLess(FZero, calc.payouts[w][2])
                  /\ \A k \in 1..Len(calc.card_counts) :
                        k # w => FLess(calc.payouts[k][2], calc.payouts[w][2])
        /\ (calc.card_counts = SoleWinnerExample /\ calc.card_value = CardValue020) =>
              sum_values(calc.payouts) = FZero

\* C17 (case reached): compute_payouts has been applied to the example at the
\* default card value.
C17_Witness ==
    /\ calc.stage = "done"
    /\ calc.card_counts = SoleWinnerExample
    /\ calc.card_value = CardValue020

\* The entries carry different created_at timestamps
DistinctCreatedAt(games) ==
    \A i, j \in 1..Len(games) : i # j => games[i].created_at # games[j].created_at

\* C20: full recalculation of the lifetime stats is idempotent and does not
\* depend on the order of the entries: over archive entries with distinct
\* created_at, recalculate_all_player_stats gives every player the same stats
\* whatever order the entries are returned in, and run a second time (again
\* on any order) it gives the same stats once more.
C20_RecalculationIdempotent ==
    DistinctCreatedAt(db.archived_games) =>
        LET once == recalculate_all_player_stats(db, db.archived_games, clock)
        IN  \A games \in Orders(db.archived_games) :
               /\ recalculate_all_player_stats(db, games, clock).players = once.players
               /\ recalculate_all_player_stats(once, games, clock).players = once.players

\* C20 (case reached): the stats have been recalculated over three entries
\* with different timestamps in which one player took part three times.
C20_Witness ==
    /\ last.op = "recalculate_all_player_stats"
    /\ Len(db.archived_games) = 3
    /\ DistinctCreatedAt(db.archived_games)
    /\ \E k \in 1..Len(db.players) : db.players[k].games_played = 3

\* The multiplier table of the payout rules: 3 from the triple threshold on,
\* 2 from the double threshold on, else 1, with the thresholds (10, 13) for
\* 4 players, (12, 15) for 3 players and (10, 13) for any other number
TableMultiplier(cards, num_players) ==
    CASE num_players = 3 -> (IF cards >= 15 THEN 3 ELSE IF cards >= 12 THEN 2 ELSE 1)
      [] OTHER           -> (IF cards >= 13 THEN 3 ELSE IF cards >= 10 THEN 2 ELSE 1)

\* The payment of the rules, (cards[payer] - cards[receiver]) * card_value *
\* multiplier(payer), as a float product taken left to right
TablePayment(payer_cards, receiver_cards, cv, num_players) ==
    FMulInt(TableMultiplier(payer_cards, num_players),
            FMulInt(payer_cards - receiver_cards, cv))

\* Player i of card_counts is the only payer of the pairwise step: every
\* other player holds the same positive number of cards, fewer than i's
OnlyPayer(card_counts, i) ==
    /\ \A j \in 1..Len(card_counts) : card_counts[j][2] > 0
    /\ \A j, k \in (1..Len(card_counts)) \ {i} :
          /\ card_counts[j][2] = card_counts[k][2]
          /\ card_counts[j][2] < card_counts[i][2]

\* C27: the payer's multiplier in compute_payouts is 3 at or above the triple
\* threshold, else 2 at or above the double threshold, else 1, with the
\* thresholds (10, 13) for 4 players, (12, 15) for 3 players and (10, 13) for
\* any other number of players: the code's multiplier is the table's for
\* every player of every call, and where one player is the only payer each
\* other player's payout is the card difference times the card value times
\* that multiplier.
C27_Multiplier ==
    calc.stage = "done" =>
        LET cc == calc.card_counts
            n  == Len(cc)
        IN  /\ \A k \in 1..n : multiplier(cc[k][2], n) = TableMultiplier(cc[k][2], n)
            /\ \A i \in 1..n : OnlyPayer(cc, i) =>
                  \A j \in (1..n) \ {i} :
                     calc.payouts[j][2] =
                        FMulInt(TableMultiplier(cc[i][2], n),
                                FMulInt(cc[i][2] - cc[j][2], calc.card_value))

\* C27 (case reached): a 3-player call whose only payer holds 12 cards, the
\* count at which the 3-player and the 4-player thresholds differ.
C27_Witness ==
    /\ calc.stage = "done"
    /\ Len(calc.card_counts) = 3
    /\ \E i \in 1..3 : OnlyPayer(calc.card_counts, i) /\ calc.card_counts[i][2] = 12

\* The receipts of player p from the players after position k that hold more
\* cards, and p's payments to those that hold fewer, each summed in the
\* players' order
RECURSIVE TableReceipts(_, _, _, _)
TableReceipts(cc, cv, p, k) ==
    IF k = 0 THEN FZero
    ELSE LET rest == TableReceipts(cc, cv, p, k - 1)
         IN  IF cc[k][2] > cc[p][2]
             THEN FAdd(rest, TablePayment(cc[k][2], cc[p][2], cv, Len(cc)))
             ELSE rest

RECURSIVE TablePayments(_, _, _, _)
TablePayments(cc, cv, p, k) ==
    IF k = 0 THEN FZero
    ELSE LET rest == TablePayments(cc, cv, p, k - 1)
         IN  IF cc[k][2] < cc[p][2]
             THEN FAdd(rest, TablePayment(cc[p][2], cc[k][2], cv, Len(cc)))
             ELSE rest

NoWinner(card_counts) == \A k \in 1..Len(card_counts) : card_counts[k][2] # 0

\* C28: with no 0-card player, compute_payouts gives each player exactly the
\* sum of what the players with more cards pay them, (difference * card value
\* * the payer's multiplier) each, minus the sum of what they pay the players
\* with fewer cards; equal counts pay nothing.
C28_PairwiseFormula ==
    (calc.stage = "done" /\ NoWinner(calc.card_counts)) =>
        LET cc == calc.card_counts
            n  == Len(cc)
        IN  \A p \in 1..n :
               calc.payouts[p][2] =
                  FSub(TableReceipts(cc, calc.card_value, p, n),
                       TablePayments(cc, calc.card_value, p, n))

\* C28 (case reached): a 4-player call without a 0-card player in which some
\* player both receives and pays and some two players hold equal counts.
C28_Witness ==
    /\ calc.stage = "done"
    /\ NoWinner(calc.card_counts)
    /\ Len(calc.card_counts) = 4
    /\ \E p, q, r \in 1..4 :
          /\ calc.card_counts[q][2] > calc.card_counts[p][2]
          /\ calc.card_counts[p][2] > calc.card_counts[r][2]
    /\ \E p, q \in 1..4 : p # q /\ calc.card_counts[p][2] = calc.card_counts[q][2]

NumWinners(card_counts) ==
    Cardinality({k \in 1..Len(card_counts) : card_counts[k][2] = 0})

\* C29: the winner bonus adds to the pairwise result: with w players at 0
\* cards out of n, each of them nets + 2 * card_value * (n - w) and each
\* other player nets - 2 * card_value * w (so the winners pay one another
\* nothing on balance), and with no 0-card player nothing is added.
C29_WinnerBonus ==
    calc.stage = "done" =>
        LET cc == calc.card_counts
            n  == Len(cc)
            w  == NumWinners(cc)
            pairwise == pairwise_loop([k \in 1..n |-> FZero], cc, calc.card_value, 0)
            bonus    == FMulInt(2, calc.card_value)
        IN  \A k \in 1..n :
               calc.payouts[k][2] =
                  IF w = 0 THEN pairwise[k]
                  ELSE IF cc[k][2] = 0 THEN FAdd(pairwise[k], FMulInt(n - w, bonus))
                  ELSE FSub(pairwise[k], FMulInt(w, bonus))

\* C29 (case reached): a 4-player call with two 0-card players.
C29_Witness ==
    /\ calc.stage = "done"
    /\ Len(calc.card_counts) = 4
    /\ NumWinners(calc.card_counts) = 2

\* A registered player and a name of an archive entry are the same player
\* when the registry's lookup takes one for the other
SamePlayer(name, other) == str_lower(name) = str_lower(other)

\* The stored archive entries in which a player took part
EntriesOf(name) ==
    {k \in 1..Len(db.archived_games) :
        \E i \in 1..Len(db.archived_games[k].final_totals) :
           SamePlayer(db.archived_games[k].final_totals[i][1], name)}

\* The name under which a player took part in an entry
NameIn(entry, name) ==
    entry.final_totals[CHOOSE i \in 1..Len(entry.final_totals) :
                          SamePlayer(entry.final_totals[i][1], name)][1]

\* The stored entries from the oldest to the newest (entries of the same
\* second in either order)
Chronological ==
    {games \in Orders(db.archived_games) :
        \A i, j \in 1..Len(games) : i < j => games[i].created_at <= games[j].created_at}

\* The float sum of a player's final totals over the first k of some entries
RECURSIVE SumOfFinals(_, _, _)
SumOfFinals(games, name, k) ==
    IF k = 0 THEN FZero
    ELSE IF \E i \in 1..Len(games[k].final_totals) :
               SamePlayer(games[k].final_totals[i][1], name)
    THEN FAdd(SumOfFinals(games, name, k - 1),
              Get(games[k].final_totals, NameIn(games[k], name)))
    ELSE SumOfFinals(games, name, k - 1)

\* The round results of a player in a stored entry, as <<entry, round>> pairs
RoundsOf(name) ==
    {<<k, r>> \in (1..Len(db.archived_games)) \X (1..MaxRounds + 1) :
        /\ k \in EntriesOf(name)
        /\ HasKey(db.archived_games[k].round_history, NameIn(db.archived_games[k], name))
        /\ r <= Len(Get(db.archived_games[k].round_history,
                        NameIn(db.archived_games[k], name)))}

RoundResult(name, kr) ==
    Get(db.archived_games[kr[1]].round_history,
        NameIn(db.archived_games[kr[1]], name))[kr[2]]

Recalculated ==
    \/ last.op \in {"recalculate_all_player_stats", "clear_all_archived_games"}
    \/ last.op = "delete_archived_game" /\ last.ret = PyBool(TRUE)

\* C21: after recalculate_all_player_stats (run on its own, by a successful
\* delete_archived_game or by clear_all_archived_games) every registered
\* player has games_played = the number of stored entries they took part in,
\* total_net = the sum of their final totals over those entries (oldest
\* first), wins / losses / ties = the numbers of positive / negative / zero
\* values of their round_history in those entries, and last_played = the
\* greatest created_at among them, or zeros and None when there is none.
C21_RecalculatedStats ==
    Recalculated =>
        \A p \in 1..Len(db.players) :
           LET player == db.players[p]
               name   == player.name
               rounds == RoundsOf(name)
           IN  /\ player.games_played = Cardinality(EntriesOf(name))
               /\ \E games \in Chronological :
                     player.total_net = SumOfFinals(games, name, Len(games))
               /\ player.wins = Cardinality({kr \in rounds : FPositive(RoundResult(name, kr))})
               /\ player.losses = Cardinality({kr \in rounds : FNegative(RoundResult(name, kr))})
               /\ player.ties = Cardinality({kr \in rounds : RoundResult(name, kr) = FZero})
               /\ IF EntriesOf(name) = {}
                  THEN /\ player.last_played = PyNone
                       /\ player.total_net = FZero
                  ELSE \E k \in EntriesOf(name) :
                         /\ player.last_played = PyInt(db.archived_games[k].created_at)
                         /\ \A j \in EntriesOf(name) :
                               db.archived_games[j].created_at <= db.archived_games[k].created_at

\* C21 (case reached): a game has been deleted and the stats recalculated
\* while another game of the same player, with round results, is still
\* stored, and a registered player has no game left.
C21_Witness ==
    /\ last.op = "delete_archived_game"
    /\ last.ret = PyBool(TRUE)
    /\ \E p \in 1..Len(db.players) :
          db.players[p].games_played = 1 /\ db.players[p].wins + db.players[p].losses = 1
    /\ \E p \in 1..Len(db.players) : db.players[p].last_played = PyNone

\* Letters that differ only in case: the lower-case form of a name
LowerCase(name) ==
    CASE name = "A" -> "a"
      [] name = "B" -> "b"
      [] name = "C" -> "c"
      [] name = "É" -> "é"
      [] OTHER      -> name

EqualIgnoringCase(name, other) == LowerCase(name) = LowerCase(other)

NoCaseDuplicates(players) ==
    \A i, j \in 1..Len(players) :
       i # j => ~EqualIgnoringCase(players[i].name, players[j].name)

\* C25: add_player with a name that, trimmed, equals an existing player's
\* name ignoring case returns that player's id and creates no player, and no
\* two registered players ever have names that are equal ignoring case.
C25_CaseInsensitiveRegistry ==
    [][/\ NoCaseDuplicates(db'.players)
       /\ last'.op = "add_player" =>
             \A k \in 1..Len(db.players) :
                EqualIgnoringCase(db.players[k].name, str_strip(last'.arg)) =>
                   /\ last'.ret = PyInt(db.players[k].player_id)
                   /\ db'.players = db.players]_vars

\* C25 (case reached): add_player was called with a name that matches a
\* registered player's name only after trimming or only ignoring case.
C25_Witness ==
    /\ last.op = "add_player"
    /\ \E k \in 1..Len(db.players) :
          /\ db.players[k].name # last.arg
          /\ EqualIgnoringCase(db.players[k].name, str_strip(last.arg))

\* C25, for names in the letters A-Z and a-z only: the same statement.
C25_AsciiNames ==
    [][/\ NoCaseDuplicates(SelectSeq(db'.players, LAMBDA row : row.name \notin {"É", "é"}))
       /\ (last'.op = "add_player" /\ last'.arg \notin {"É", "é"}) =>
             \A k \in 1..Len(db.players) :
                EqualIgnoringCase(db.players[k].name, str_strip(last'.arg)) =>
                   /\ last'.ret = PyInt(db.players[k].player_id)
                   /\ db'.players = db.players]_vars

\* C26: delete_player_by_name returns False and deletes nothing when the
\* player its lookup resolves is one of the players of the active game, or
\* when there is no such player.
C26_ActivePlayerKept ==
    [][last'.op = "delete_player_by_name" =>
          LET name   == last'.arg[1]
              active == last'.arg[2]
              player == get_player_by_name(db, name)
          IN  (player = 0 \/ db.players[player].name \in active) =>
                 /\ last'.ret = PyBool(FALSE)
                 /\ db'.players = db.players]_vars

\* C26 (case reached): delete_player_by_name was called, during a game, with
\* a name that is an active player's name in another case.
C26_Witness ==
    /\ last.op = "delete_player_by_name"
    /\ last.arg[1] \notin last.arg[2]
    /\ \E other \in last.arg[2] : SamePlayer(last.arg[1], other)

\* The snapshots stored in active_games
StoredSnapshots == {load_active_game(active_games[k]) : k \in 1..Len(active_games)}

\* C22: round_num is the next round to be played, in the session and in
\* every stored snapshot, after any sequence of Start, Add Round, Undo Last
\* Round and Remove Round: round_num = (number of rounds in history) + 1.
C22_RoundNumIsNext ==
    /\ session.tracker # "None" => session.round_num = Len(tracker.history) + 1
    /\ \A snapshot \in StoredSnapshots :
          snapshot.round_num = Len(snapshot.history.columns) + 1

\* C22 (case reached): Remove Round has taken the first of two rounds out and
\* the session and its stored snapshot are at round 2 with one round left.
C22_Witness ==
    /\ last.op = "remove_round_button"
    /\ last.arg = 1
    /\ last.ret = PyBool(TRUE)
    /\ Len(tracker.history) = 1
    /\ session.round_num = 2
    /\ \E snapshot \in StoredSnapshots :
          snapshot.round_num = 2 /\ Len(snapshot.history.columns) = 1

\* C23: the archive entry built by Add to Log has final_totals[p] =
\* balances[p] for every player, rounds_played = the number of rounds in
\* history, and round_history[p] = p's payouts round by round (its length is
\* rounds_played and its sum is final_totals[p]).
C23_ArchiveEntry ==
    last.op = "add_to_log" =>
        LET entry == last.arg
        IN  /\ entry.rounds_played = Len(tracker.history)
            /\ \A p \in PlayerSet :
                  /\ Get(entry.final_totals, p) = Get(tracker.balances, p)
                  /\ Get(entry.round_history, p) = [r \in Rounds |-> Cell(r, p)]
                  /\ Len(Get(entry.round_history, p)) = entry.rounds_played
                  /\ sum_values([r \in Rounds |-> <<r, Get(entry.round_history, p)[r]>>])
                        = Get(entry.final_totals, p)

\* C23 (case reached): Add to Log has archived a game of two rounds.
C23_Witness ==
    /\ last.op = "add_to_log"
    /\ last.arg.rounds_played = 2
    /\ Len(tracker.history) = 2
    /\ session.archived_this_game

\* C24: winner_order of an archive entry is a permutation of the game's
\* players in descending order of final total.
C24_WinnerOrder ==
    last.op = "add_to_log" =>
        LET entry == last.arg
            order == entry.winner_order
        IN  /\ Len(order) = Len(entry.players)
            /\ Range(order) = Range(entry.players)
            /\ \A k \in 1..(Len(order) - 1) :
                  ~FLess(Get(entry.final_totals, order[k]),
                         Get(entry.final_totals, order[k + 1]))

\* C24 (case reached): an archived game in which a later player of the list
\* ends above an earlier one and two players end level.
C24_Witness ==
    /\ last.op = "add_to_log"
    /\ \E i, j \in 1..Len(last.arg.final_totals) :
          i < j /\ FLess(last.arg.final_totals[i][2], last.arg.final_totals[j][2])
    /\ \E i, j \in 1..Len(last.arg.final_totals) :
          i < j /\ last.arg.final_totals[i][2] = last.arg.final_totals[j][2]

\* C30: pressing Add Round with card counts whose sum is not 0, with or
\* without special hands and bao player, adds one round to the ledger
\* (history and tx_log grow by one, the balances change by the computed
\* payouts), increments round_num and saves the snapshot; with all counts 0
\* nothing changes.
C30_AddRoundButton ==
    [][last'.op = "add_round_button" =>
          LET card_counts == last'.arg[1]
          IN  IF sum_of_counts(card_counts) = 0
              THEN UNCHANGED <<tracker, session, active_games>>
              ELSE /\ Len(tracker'.history) = Len(tracker.history) + 1
                   /\ Len(tracker'.tx_log) = Len(tracker.tx_log) + 1
                   /\ tracker'.balances =
                         apply_to_balances(tracker.players, tracker.balances,
                                           compute_payouts(card_counts, card_value), 1)
                   /\ session'.round_num = session.round_num + 1
                   /\ \E k \in 1..Len(active_games') :
                         /\ active_games'[k].game_id = session.game_id
                         /\ load_active_game(active_games'[k]) =
                               save_game_snapshot(tracker', session'.round_num,
                                                  card_value)]_vars

\* C30 (case reached): Add Round was pressed with a card count that is not
\* 0, no special hand and no bao player.
C30_Witness ==
    /\ last.op = "add_round_button"
    /\ sum_of_counts(last.arg[1]) # 0
    /\ last.arg[3] = <<>>
    /\ last.arg[4] = PyNone

\* What undo_last_round leaves when it is called right after
\* add_round(card_counts, card_value) on the current ledger
UndoneAfterAdd(card_counts) ==
    undo_last_round(add_round(tracker, card_counts, card_value, clock).tracker)

\* C36: add_round immediately followed by undo_last_round restores balances,
\* history and tx_log exactly, for every reachable ledger and every valid
\* round input.
C36_AddThenUndo ==
    \A card_counts \in CardCountsOver(tracker.players, LedgerCards) :
        /\ UndoneAfterAdd(card_counts).ret = PyBool(TRUE)
        /\ UndoneAfterAdd(card_counts).tracker.balances = tracker.balances
        /\ UndoneAfterAdd(card_counts).tracker.history = tracker.history
        /\ UndoneAfterAdd(card_counts).tracker.tx_log = tracker.tx_log

\* C36 (case reached): undo_last_round has taken out the round that add_round
\* added to a ledger of one round, and that round is what is left.
C36_Witness ==
    /\ last.op = "undo_last_round"
    /\ last.ret = PyBool(TRUE)
    /\ Len(tracker.history) = 1
    /\ Len(tracker.tx_log) = 1
    /\ card_value = CardValue020
    /\ \E p \in Range(tracker.players) : FPositive(tracker.history[1].vals[p])

\* C36, the part that holds: history and tx_log are restored exactly, and so
\* are the balances of a game played at card value 0.5
C36_HistoryAndLogRestored ==
    \A card_counts \in CardCountsOver(tracker.players, LedgerCards) :
        /\ UndoneAfterAdd(card_counts).tracker.history = tracker.history
        /\ UndoneAfterAdd(card_counts).tracker.tx_log = tracker.tx_log
        /\ card_value = CardValue050 =>
              UndoneAfterAdd(card_counts).tracker.balances = tracker.balances

\* The players a round's history column has no value for
OmittedIn(column) == {p \in DOMAIN column.vals : IsNaN(column.vals[p])}

\* C35: a player that card_counts omits counts as paid 0: add_round leaves
\* that player's balance unchanged, and a later undo_last_round or
\* remove_round of that round leaves every player's balance defined and equal
\* to the sum of the remaining rounds.
C35_OmittedPlayerCountsZero ==
    [][/\ last'.op = "add_round" =>
             \A p \in Range(tracker.players) \ Keys(last'.arg) :
                 Get(tracker'.balances, p) = Get(tracker.balances, p)
       /\ \A removed \in 1..Len(tracker.history) :
             /\ last'.ret = PyBool(TRUE)
             /\ \/ last'.op = "undo_last_round" /\ removed = Len(tracker.history)
                \/ last'.op = "remove_round" /\ removed = last'.arg
             /\ OmittedIn(tracker.history[removed]) # {}
             => \A p \in Range(tracker.players) :
                   /\ ~IsNaN(Get(tracker'.balances, p))
                   /\ Get(tracker'.balances, p) = row_sum(tracker'.history, p)]_vars

\* C35 (case reached): a round that omitted a player was undone or removed,
\* and a player's balance is not a number.
C35_Witness ==
    /\ last.op \in {"undo_last_round", "remove_round"}
    /\ last.ret = PyBool(TRUE)
    /\ \E p \in Range(tracker.players) : IsNaN(Get(tracker.balances, p))

\* C35, the part that holds: add_round leaves the balance of a player that
\* card_counts omits as it was
C35_AddLeavesOmittedBalance ==
    [][last'.op = "add_round" =>
          \A p \in Range(tracker.players) \ Keys(last'.arg) :
              Get(tracker'.balances, p) = Get(tracker.balances, p)]_vars

\* The payout of the k-th listed player is above that of every player that
\* reports more cards
StrictlyAbove(card_counts, payouts) ==
    \A i, j \in 1..Len(card_counts) :
        card_counts[i][2] < card_counts[j][2] => FLess(payouts[j][2], payouts[i][2])

\* C37: compute_payouts is strictly order-preserving in the card counts:
\* fewer cards give a strictly greater payout, equal cards give equal
\* payouts, the result has exactly the keys of card_counts, and it does not
\* depend on the order in which the players are listed.
C37_OrderPreserving ==
    calc.stage = "done" =>
        /\ KeyList(calc.payouts) = KeyList(calc.card_counts)
        /\ StrictlyAbove(calc.card_counts, calc.payouts)
        /\ \A i, j \in 1..Len(calc.card_counts) :
              calc.card_counts[i][2] = calc.card_counts[j][2] =>
                  calc.payouts[i][2] = calc.payouts[j][2]
        /\ \A listed \in Orders(calc.card_counts) :
              \A p \in Keys(calc.card_counts) :
                  Get(compute_payouts(listed, calc.card_value), p) = Get(calc.payouts, p)

\* C37 (case reached): compute_payouts has been applied to players of whom
\* two report the same number of cards and a third reports more.
C37_Witness ==
    /\ calc.stage = "done"
    /\ \E i, j, k \in 1..Len(calc.card_counts) :
          /\ i # j
          /\ calc.card_counts[i][2] = calc.card_counts[j][2]
          /\ calc.card_counts[j][2] < calc.card_counts[k][2]

\* C37, the part that holds: the keys are those of card_counts and fewer
\* cards give a strictly greater payout
C37_KeysAndStrictOrder ==
    calc.stage = "done" =>
        /\ KeyList(calc.payouts) = KeyList(calc.card_counts)
        /\ StrictlyAbove(calc.card_counts, calc.payouts)

\* The statistics of a player row that the claim compares
StatsOf(row) ==
    <<row.games_played, row.total_net, row.wins, row.losses, row.ties, row.last_played>>

\* The stored statistics of every registered player are those that
\* recalculate_all_player_stats would store in database d, whatever order the
\* query returns entries of the same second in
AgreesWithRecalculation(d) ==
    \A games \in get_all_archived_games(d) :
        LET rebuilt == recalculate_all_player_stats(d, games, clock)
        IN  \A k \in 1..Len(d.players) :
               \E j \in 1..Len(rebuilt.players) :
                  /\ rebuilt.players[j].player_id = d.players[k].player_id
                  /\ StatsOf(rebuilt.players[j]) = StatsOf(d.players[k])

\* C32: after any sequence of player add / delete, add_archived_game and
\* delete_archived_game, every registered player's stored stats
\* (games_played, total_net, wins, losses, ties, last_played) equal those
\* that recalculate_all_player_stats would compute from the stored entries.
C32_IncrementalAgreesWithRebuilt == AgreesWithRecalculation(db)

\* C32 (case reached): a player was registered while the archive holds a
\* game under that player's name.
C32_Witness ==
    /\ last.op = "add_player"
    /\ \E k \in 1..Len(db.players) :
          /\ PyInt(db.players[k].player_id) = last.ret
          /\ db.players[k].games_played = 0
          /\ \E g \in 1..Len(db.archived_games) :
                \E i \in 1..Len(db.archived_games[g].final_totals) :
                   str_lower(db.archived_games[g].final_totals[i][1])
                      = str_lower(db.players[k].name)

\* What a session that opens game_id restores from the table of stored games
RestoredFrom(table, game_id) ==
    restore_tracker_from_snapshot(
        load_active_game(table[CHOOSE k \in 1..Len(table) : table[k].game_id = game_id]))

\* C34: after every UI action that changes the ledger (Start / Update Game,
\* Add Round, Undo Last Round, Remove Round), the snapshot stored under the
\* session's game_id restores to a tracker with the session's players,
\* balances, history and tx_log and to its round_num and card_value; after
\* Reset Game no snapshot is stored under that game_id.
C34_SnapshotMatchesSession ==
    [][/\ (\/ last'.op \in {"start_game", "add_round_button"} /\ last'.ret = PyNone
           \/ last'.op \in {"undo_button", "remove_round_button"}
                 /\ last'.ret = PyBool(TRUE)) =>
             /\ \E k \in 1..Len(active_games') :
                   active_games'[k].game_id = session'.game_id
             /\ RestoredFrom(active_games', session'.game_id) =
                   [tracker    |-> tracker',
                    round_num  |-> session'.round_num,
                    card_value |-> card_value']
       /\ last'.op = "reset_game" =>
             \A k \in 1..Len(active_games') :
                 active_games'[k].game_id # session.game_id]_vars

\* C34 (case reached): Undo Last Round has taken a round out of a stored game
\* of two rounds and its snapshot restores to the round that is left.
C34_Witness ==
    /\ last.op = "undo_button"
    /\ last.ret = PyBool(TRUE)
    /\ Len(tracker.history) = 1
    /\ \E k \in 1..Len(active_games) : active_games[k].game_id = session.game_id
    /\ RestoredFrom(active_games, session.game_id).tracker = tracker

\* A snapshot is consistent: the balances are the per-player sums of the
\* history, history and tx_log have the same length, and round_num is the
\* number of rounds plus 1
SnapshotConsistent(snapshot) ==
    LET restored == restore_tracker_from_snapshot(snapshot).tracker
    IN  /\ \A p \in Range(restored.players) :
              Get(restored.balances, p) = row_sum(restored.history, p)
        /\ Len(restored.history) = Len(restored.tx_log)
        /\ snapshot.round_num = Len(restored.history) + 1

\* The row of a game in the table of stored games
RowOf(table, game_id) ==
    table[CHOOSE k \in 1..Len(table) : table[k].game_id = game_id]

\* C31: when two sessions that loaded the same game_id interleave Add Round /
\* Undo / Remove Round, each save replaces the whole snapshot: the stored
\* snapshot is the complete state of the session that saved last, and it
\* always has balances = per-player sums of history, len(history) =
\* len(tx_log) and round_num = rounds + 1.
C31_LastWriterWins ==
    [][/\ active_games' # active_games =>
             /\ Len(active_games') = Len(active_games)
             /\ load_active_game(RowOf(active_games', session.game_id)) =
                   save_game_snapshot(tracker', session'.round_num, card_value')
       /\ \A k \in 1..Len(active_games') :
             SnapshotConsistent(load_active_game(active_games'[k]))]_vars

\* C31 (case reached): both sessions hold the same game, and the one that
\* saved last has one round left while the other still shows two.
C31_Witness ==
    /\ last.op \in {"undo_button", "remove_round_button"}
    /\ last.ret = PyBool(TRUE)
    /\ peer.session.game_id = session.game_id
    /\ Len(tracker.history) = 1
    /\ Len(peer.tracker.history) = 2
    /\ load_active_game(RowOf(active_games, session.game_id)).round_num = 2

\* C31, the part that holds: a save replaces the whole snapshot by the state
\* of the saving session, with history and tx_log of the same length and
\* round_num = rounds + 1
C31_WholeSnapshotReplaced ==
    [][/\ active_games' # active_games =>
             /\ Len(active_games') = Len(active_games)
             /\ load_active_game(RowOf(active_games', session.game_id)) =
                   save_game_snapshot(tracker', session'.round_num, card_value')
       /\ \A k \in 1..Len(active_games') :
             LET snapshot == load_active_game(active_games'[k])
             IN  /\ Len(snapshot.history.columns) = Len(snapshot.tx_log)
                 /\ snapshot.round_num = Len(snapshot.history.columns) + 1]_vars

\* C33: a game is archived at most once: at most one archive entry with a
\* given game_id is ever stored, and its players' stats count it once, over
\* any sequence of Add Round, Undo, Remove Round and Add to Log, re-opening
\* the game from its URL in a new session included.
C33_ArchivedAtMostOnce ==
    /\ \A i, j \in 1..Len(db.archived_games) :
          db.archived_games[i].game_id = db.archived_games[j].game_id => i = j
    /\ \A k \in 1..Len(db.players) :
          db.players[k].games_played <=
             Cardinality({db.archived_games[g].game_id : g \in 1..Len(db.archived_games)})

\* C33 (case reached): Add to Log was pressed in a session opened from the
\* URL of a game that another session has archived.
C33_Witness ==
    /\ last.op = "add_to_log"
    /\ session.archived_this_game
    /\ peer.session.archived_this_game
    /\ peer.session.game_id = session.game_id

\* The operations of the main app, by the name they leave in last.op
AppOps == {"init_session_state", "start_game", "reset_game", "add_round_button",
           "undo_button", "remove_round_button", "add_to_log",
           "clear_all_players"}

\* C38: with password protection enabled, no game, player or archive
\* operation of the main app runs in a session whose authenticated flag is
\* not set, and nothing of the game, the registry or the archive changes
\* unless the flag is set afterwards; the flag becomes set only by a login
\* whose password equals APP_PASSWORD; logout clears it, and in a session
\* without the flag the only thing that runs is the login form.
C38_PasswordGate ==
    [][/\ ENABLE_PASSWORD_PROTECTION
       /\ last'.op \in AppOps => auth.authenticated
       /\ <<tracker, card_value, db, session, active_games>>' #
             <<tracker, card_value, db, session, active_games>> => auth'.authenticated
       /\ (auth'.authenticated /\ ~auth.authenticated) =>
             (last'.op = "login" /\ last'.arg = PyStr(APP_PASSWORD))
       /\ last'.op = "logout" => ~auth'.authenticated
       /\ ~auth.authenticated => last'.op = "login"]_vars

\* C38 (case reached): a session logged in, archived a game and logged out,
\* and shows the login form again.
C38_Witness ==
    /\ last.op = "logout"
    /\ ~auth.authenticated
    /\ auth.initialized
    /\ session.archived_this_game
    /\ Len(db.archived_games) = 1

====
